---- MODULE Spec2Model ----
(***************************************************************************)
(* A model of morningli/logparser: the two log stream parsers              *)
(* (RocksDLogParser, "variant A", and PikaSlowLogItemParser, "variant B"), *)
(* the two command line drivers that loop over them, and the bucket        *)
(* aggregator.                                                             *)
(*                                                                         *)
(* Text is abstracted to what the code's patterns read off a line: a line  *)
(* is a record of the features the regular expressions and the string      *)
(* searches of the source extract from it.  Times are integers; 0 is Go's  *)
(* zero time.Time, every timestamp that parses is an instant after it.     *)
(* File reads are assumed not to fail (Stat and ReadAt return no error).   *)
(***************************************************************************)
EXTENDS Integers, Sequences, FiniteSets, TLC

VARIABLES
    variant,    \* "A": RocksDLogParser, "B": PikaSlowLogItemParser
    disk,       \* the lines of the file the parser was opened on
    p,          \* the parser object: file, sc, cur, peekBuf, curYear
    ret,        \* what the last call on the parser was and what it returned
    recs,       \* the items Value returned since the last successful Seek
    pc,         \* position of the driving loop (main)
    cli,        \* which main: "single" (one file) or "chart" (many files)
    start,      \* main's -start
    end,        \* main's -end
    mainItem,   \* main's local variable item: what Value returned to main
    trail,      \* what Seek returned to main and the calls main made after it
    parsed,     \* items main handed to the metric parser, for the current file
    metrics,    \* Aggregate's input collection
    agg,        \* the BucketAggregator: Step, Mode, GroupBySource
    out,        \* Aggregate's result
    formula,    \* the formula text handed to the expression engine
    outName,    \* the output name handed to Compute
    env,        \* the environment handed to evalRPN
    exprs,      \* the ExprSpec list handed to computeExpressions
    res         \* what the last call of the expression engine returned

vars == <<variant, disk, p, ret, recs, pc, cli, start, end, mainItem, trail, parsed,
          metrics, agg, out, formula, outName, env, exprs, res>>

streamVars == <<variant, disk, p, ret, recs>>
mainVars == <<pc, cli, start, end, mainItem, trail, parsed>>
aggVars == <<metrics, agg, out>>
exprVars == <<formula, outName, env, exprs, res>>

----------------------------------------------------------------------------
(* Bounds of the model.                                                    *)

MaxLen == 3         \* lines in a file of the general stream specification
MaxT == 2           \* distinct timestamps a head can carry (per year)
MaxSegLen == 4      \* lines in a file of the segmentation specification
MaxCmdLen == 3      \* lines in a file of the command framing specification
MaxMainLen == 2     \* lines in a file the driving loops read
MaxPts == 3         \* metrics handed to one Aggregate call
MaxTick == 4        \* latest point time, in ticks after the zero instant
MaxVal == 2         \* largest metric value
MaxStep == 4        \* longest bucket step, in ticks
MaxFormulaLen == 7  \* characters of a well-formed formula handed to evalRPN
MaxTextLen == 3     \* characters of a formula text handed to Compute
MaxExprs == 3       \* expressions of a group handed to computeExpressions

(* The tail window of fastHasAnyAfter, in lines: every line counts as one  *)
(* unit of the 1 MiB the source reads.                                     *)
tailReadBytes == 2

(* The head window of scanYearFromHead, in lines (128 KiB in the source). *)
headReadBytes == 1

Max(a, b) == IF a >= b THEN a ELSE b
Min(a, b) == IF a <= b THEN a ELSE b


----------------------------------------------------------------------------
(* Lines of a RocksDB LOG file (variant A).                                *)
(*   tok  what the first token of the line is:                             *)
(*        "micro"   a valid date-time with a fraction, e.g.                *)
(*                  2025/11/30-03:16:58.152255                             *)
(*        "sec"     a valid date-time without fraction                     *)
(*        "baddate" digits in the timestamp pattern that are no date, e.g. *)
(*                  2025/13/45-00:00:00.000000                             *)
(*        "text"    anything else                                          *)
(*   time the instant the token denotes (0 when it denotes none)           *)
(*   kw   the marker the line carries, "" for none                         *)

LineA(tok, time, kw) == [tok |-> tok, time |-> time, kw |-> kw]

(* The lines of the general stream specification: heads at every time,    *)
(* the two heads of a dump, a head that is no date, a date-time without    *)
(* fraction, and text.                                                     *)
LinesA ==
    {LineA("micro", t, "") : t \in 1..MaxT}
    \cup {LineA("micro", 1, "DUMPING STATS"), LineA("micro", MaxT, "[/db_impl.cc:670]")}
    \cup {LineA("baddate", 0, "")}
    \cup {LineA("sec", MaxT, "")}
    \cup {LineA("text", 0, "")}

(* The lines of the segmentation specification: a plain head, the two      *)
(* heads of a dump, text, and the two kinds of text classifyByContent      *)
(* looks for.                                                              *)
LinesSeg ==
    {LineA("micro", 1, ""), LineA("micro", 1, "DUMPING STATS"),
     LineA("micro", MaxT, "[/db_impl.cc:670]")}
    \cup {LineA("text", 0, k) : k \in {"", "event", "** DB Stats **"}}

(* reTs.MatchString(stripLOGPrefix(line)) *)
reTsMatch(l) == l.tok \in {"micro", "baddate"}

(* headTime: the token up to the first space, parsed with the microsecond  *)
(* layout and then with the second layout.                                 *)
headTime(l) ==
    IF l.tok \in {"micro", "sec"} THEN [t |-> l.time, ok |-> TRUE]
    ELSE [t |-> 0, ok |-> FALSE]

isDBStatsHead(l) == l.kw = "[/db_impl.cc:670]"

classifyHead(l) ==
    IF l.kw = "STATISTICS" THEN "STATISTICS"
    ELSE IF l.kw = "DUMPING STATS" THEN "DUMP"
    ELSE IF isDBStatsHead(l) THEN "DUMP"
    ELSE "OTHER"

classifyByContent(lines) ==
    IF \E i \in 1..Len(lines) : lines[i].kw = "event" THEN "EVENTS"
    ELSE IF \E i \in 1..Len(lines) :
                /\ lines[i].kw \in {"STATISTICS", "DUMPING STATS", "** DB Stats **"}
                /\ \A j \in 1..(i - 1) :
                      lines[j].kw \notin {"STATISTICS", "DUMPING STATS", "** DB Stats **"}
                /\ lines[i].kw = "STATISTICS"
         THEN "STATISTICS"
    ELSE IF \E i \in 1..Len(lines) : lines[i].kw \in {"DUMPING STATS", "** DB Stats **"}
         THEN "DUMP"
    ELSE "OTHER"

----------------------------------------------------------------------------
(* The parser object and its one-line lookahead.                           *)

NoItem == <<>>

(* Error values. The value errors.New makes is identified by its text and  *)
(* is a value of its own: it equals no other error value, io.EOF included. *)
(* "nil" is the nil error.                                                 *)
errorsNew(text) == text
ioSentinelEOF == "io.EOF"
ErrorText(e) == IF e = ioSentinelEOF THEN "EOF" ELSE e

ioEOF == errorsNew("EOF")

NewParser ==
    [file |-> "open", sc |-> 0, cur |-> NoItem, peekBuf |-> <<>>,
     curYear |-> "", panicked |-> FALSE]

(* nextLine: the buffered line if there is one, else the scanner's next    *)
(* line.  idx is the line's number in the file.                            *)
nextLineKeeps(f, P) ==
    IF P.peekBuf # <<>>
    THEN [line |-> P.peekBuf[1], ok |-> TRUE, idx |-> P.sc, p |-> P]
    ELSE IF P.sc < Len(f)
    THEN [line |-> f[P.sc + 1], ok |-> TRUE, idx |-> P.sc + 1,
          p |-> [P EXCEPT !.sc = P.sc + 1]]
    ELSE [line |-> <<>>, ok |-> FALSE, idx |-> 0, p |-> P]
nextLine(f, P) ==
    IF P.peekBuf # <<>>
    THEN [line |-> P.peekBuf[1], ok |-> TRUE, idx |-> P.sc,
          p |-> [P EXCEPT !.peekBuf = <<>>]]
    ELSE IF P.sc < Len(f)
    THEN [line |-> f[P.sc + 1], ok |-> TRUE, idx |-> P.sc + 1,
          p |-> [P EXCEPT !.sc = P.sc + 1]]
    ELSE [line |-> <<>>, ok |-> FALSE, idx |-> 0, p |-> P]

unreadForgets(P, s) == P
unread(P, s) ==
    IF P.peekBuf # <<>> THEN [P EXCEPT !.panicked = TRUE]
    ELSE [P EXCEPT !.peekBuf = <<s>>]

(* Value: the current item, or an error when there is none. *)
Value(P) ==
    IF P.cur = NoItem THEN [item |-> [StartTime |-> 0, Lines |-> <<>>, Type |-> ""],
                            err |-> errorsNew("no current item")]
    ELSE [item |-> P.cur[1], err |-> "nil"]

----------------------------------------------------------------------------
(* Variant A: RocksDLogParser.                                             *)

(* The comparison of Seek: ht.Equal(at) || ht.After(at). *)
AtOrAfterStrict(ht, at) == ht > at
AtOrAfter(ht, at) == ht >= at

(* The inner loop of the dump rule: the lines after the DB Stats head, up  *)
(* to the next timestamp, which is pushed back.                            *)
RECURSIVE gatherDBStats(_, _, _)
gatherDBStats(f, P, item) ==
    LET r == nextLine(f, P) IN
    IF ~r.ok THEN [p |-> r.p, item |-> item]
    ELSE IF reTsMatch(r.line) THEN [p |-> unread(r.p, r.line), item |-> item]
    ELSE gatherDBStats(f, r.p, [item EXCEPT !.Lines = Append(@, r.line)])

(* Whether the head that ends an item is folded into it. *)
foldsDBStatsNever(item, l) == FALSE
foldsDBStats(item, l) == item.Type = "DUMP" /\ isDBStatsHead(l)

(* The loop of buildItemFromHead: continuation lines up to the next        *)
(* timestamp.                                                              *)
RECURSIVE gatherLines(_, _, _)
gatherLines(f, P, item) ==
    LET r == nextLine(f, P) IN
    IF ~r.ok THEN [p |-> r.p, item |-> item]
    ELSE IF reTsMatch(r.line) THEN
        IF foldsDBStats(item, r.line)
        THEN gatherDBStats(f, r.p, [item EXCEPT !.Lines = Append(@, r.line)])
        ELSE [p |-> unread(r.p, r.line), item |-> item]
    ELSE gatherLines(f, r.p, [item EXCEPT !.Lines = Append(@, r.line)])

(* The head's time as the new item gets it: t, _ := headTime(head). *)
itemStartTime(head) == headTime(head).t

buildItemFromHeadA(f, P, head) ==
    LET item0 == [StartTime |-> itemStartTime(head), Lines |-> <<head>>,
                  Type |-> classifyHead(head)]
        g == gatherLines(f, P, item0)
        item == IF g.item.Type = "OTHER"
                THEN [g.item EXCEPT !.Type = classifyByContent(g.item.Lines)]
                ELSE g.item
    IN [g.p EXCEPT !.cur = <<item>>]

(* The loop of fastHasAnyAfter over the lines of the tail: the latest      *)
(* head time found there, the zero time when none parses.                  *)
RECURSIVE tailLastTsA(_, _, _)
tailLastTsA(lines, i, lastTs) ==
    IF i > Len(lines) THEN lastTs
    ELSE LET h == headTime(lines[i]) IN
         tailLastTsA(lines, i + 1,
                     IF h.ok /\ h.t > lastTs THEN h.t ELSE lastTs)

(* The bytes ReadAt returns: the file from size - tailReadBytes on. *)
tailWindow(f) == SubSeq(f, Max(Len(f) - tailReadBytes, 0) + 1, Len(f))

(* The verdict of fastHasAnyAfter once the latest tail time is known. *)
tailVerdictNotBefore(lastTs, at) == IF lastTs = 0 THEN TRUE ELSE lastTs >= at
tailVerdict(lastTs, at) == IF lastTs = 0 THEN TRUE ELSE lastTs > at

fastHasAnyAfterA(f, P, at) ==
    IF P.file = "nil" THEN FALSE
    ELSE IF Len(f) <= 0 THEN FALSE
    ELSE tailVerdict(tailLastTsA(tailWindow(f), 1, 0), at)

(* The cheap skip of Seek: lines up to the next timestamp, pushed back. *)
RECURSIVE skipItemA(_, _)
skipItemA(f, P) ==
    LET r == nextLine(f, P) IN
    IF ~r.ok THEN [p |-> r.p, ok |-> FALSE]
    ELSE IF reTsMatch(r.line) THEN [p |-> unread(r.p, r.line), ok |-> TRUE]
    ELSE skipItemA(f, r.p)

(* The forward scan of Seek. head is the number of the line the item was   *)
(* built from.                                                             *)
RECURSIVE seekScanA(_, _, _)
seekScanA(f, P, at) ==
    LET r == nextLine(f, P) IN
    IF ~r.ok THEN [p |-> r.p, err |-> ioEOF, head |-> 0]
    ELSE IF ~reTsMatch(r.line) THEN seekScanA(f, r.p, at)
    ELSE LET ht == headTime(r.line) IN
         IF ht.ok /\ AtOrAfter(ht.t, at)
         THEN [p |-> buildItemFromHeadA(f, r.p, r.line), err |-> "nil", head |-> r.idx]
         ELSE LET s == skipItemA(f, r.p) IN
              IF ~s.ok THEN [p |-> s.p, err |-> ioEOF, head |-> 0]
              ELSE IF s.p.panicked THEN [p |-> s.p, err |-> "panic", head |-> 0]
              ELSE seekScanA(f, s.p, at)

(* Seek. fast tells that the tail heuristic answered. *)
SeekA(f, P, at) ==
    IF P.file = "nil" THEN [p |-> P, err |-> errorsNew("parser closed"), head |-> 0, fast |-> FALSE]
    ELSE IF ~fastHasAnyAfterA(f, P, at)
    THEN [p |-> P, err |-> ioEOF, head |-> 0, fast |-> TRUE]
    ELSE LET s == seekScanA(f, P, at) IN
         [p |-> s.p, err |-> s.err, head |-> s.head, fast |-> FALSE]

(* The loop of Next: the next line that matches the timestamp pattern. *)
RECURSIVE nextScanA(_, _)
nextScanA(f, P) ==
    LET r == nextLine(f, P) IN
    IF ~r.ok THEN [p |-> [r.p EXCEPT !.cur = NoItem], ok |-> FALSE, head |-> 0]
    ELSE IF reTsMatch(r.line)
    THEN [p |-> buildItemFromHeadA(f, r.p, r.line), ok |-> TRUE, head |-> r.idx]
    ELSE nextScanA(f, r.p)

NextA(f, P) ==
    IF P.file = "nil" THEN [p |-> P, ok |-> FALSE, head |-> 0]
    ELSE nextScanA(f, P)

Close(P) == [P EXCEPT !.file = "nil"]

----------------------------------------------------------------------------
(* Lines of a pika slow log (variant B).                                   *)
(*   glog     "valid": the line starts with a glog stamp (level letter,    *)
(*            month, day, time) that is a date; "invalid": it matches the  *)
(*            stamp pattern and is no date; "none": no stamp               *)
(*   md       the instant of the stamp within its year (0 without stamp)   *)
(*   created  the year of a "Log file created at: YYYY/.." line, "" else   *)
(*   quoted   the text of a command:"..." field, "" when there is none     *)
(*   bgworker the line names pika_repl_bgworker.cc                         *)
(*   word     the word after an unquoted command: field, "" for none       *)
(*   short    the word after a cmd: field, "" when there is none           *)
(*   startSec the digits of a start_time(s): field, "" when there is none  *)

LineB(glog, md, created, quoted, bgworker, word, short, startSec) ==
    [glog |-> glog, md |-> md, created |-> created, quoted |-> quoted,
     bgworker |-> bgworker, word |-> word, short |-> short, startSec |-> startSec]

(* The lines of the general stream specification. *)
LinesB ==
    \* slow command heads: command:"set" ... start_time(s): 5
    {LineB("valid", m, "", "set", FALSE, "", "", "5") : m \in 1..MaxT}
    \* stamped debug lines: cmd: get
    \cup {LineB("valid", m, "", "", FALSE, "", "get", "") : m \in 1..MaxT}
    \* a stamp that is no date
    \cup {LineB("invalid", 0, "", "", FALSE, "", "", "")}
    \* a command:"set" field on a line without stamp
    \cup {LineB("none", 0, "", "set", FALSE, "", "", "")}
    \* Log file created at: YYYY/MM/DD hh:mm:ss
    \cup {LineB("none", 0, y, "", FALSE, "", "", "") : y \in {"2024", "2026"}}
    \* anything else
    \cup {LineB("none", 0, "", "", FALSE, "", "", "")}

(* The lines of the command framing specification: the three kinds of      *)
(* command head, and the lines that can follow one.                        *)
LinesCmd ==
    \* command:"set" ... start_time(s): 5 and command:"GET"
    {LineB("valid", 1, "", "set", FALSE, "", "", "5"),
     LineB("valid", 1, "", "GET", FALSE, "", "", "")}
    \* a replication worker line: pika_repl_bgworker.cc ... command: set
    \cup {LineB("valid", 1, "", "", TRUE, "set", "", "")}
    \* a head that carries start_time(s): 5 and cmd: get
    \cup {LineB("valid", 1, "", "", FALSE, "", "get", "5")}
    \* debug lines: cmd: <word>
    \cup {LineB("valid", 1, "", "", FALSE, "", c, "") : c \in {"SET", "get"}}
    \* stamped lines that only carry start_time(s)
    \cup {LineB("valid", 1, "", "", FALSE, "", "", n) : n \in {"5", "6"}}
    \* anything else
    \cup {LineB("none", 0, "", "", FALSE, "", "", "")}

(* Years as numbers, and the instant of a month-day-time in a year. *)
yearNumber(y) ==
    CASE y = "2024" -> 1
      [] y = "2025" -> 2
      [] y = "2026" -> 3

YearLen == MaxT + 1

timeInYear(year, md) == yearNumber(year) * YearLen + md

(* strings.ToUpper and strings.ToLower on the words of the model *)
ToUpper(w) ==
    CASE w \in {"set", "SET"} -> "SET"
      [] w \in {"get", "GET"} -> "GET"
      [] OTHER -> w

ToLower(w) ==
    CASE w \in {"set", "SET"} -> "set"
      [] w \in {"get", "GET"} -> "get"
      [] OTHER -> w

(* The year a stamp is read with when none is known. *)
defaultYear(year) == IF year = "" THEN "2025" ELSE year

(* parseGlogTsWithYear: the stamp of the line, in the year given. *)
parseGlogTsWithYear(l, year) ==
    IF l.glog = "valid"
    THEN [t |-> timeInYear(defaultYear(year), l.md), ok |-> TRUE]
    ELSE [t |-> 0, ok |-> FALSE]

(* parseGlogTs: the stamp of the line, in the parser's current year. *)
parseGlogTs(P, l) == parseGlogTsWithYear(l, P.curYear)

tryUpdateCreated(P, l) ==
    IF l.created # "" THEN [P EXCEPT !.curYear = l.created] ELSE P

(* strings.Contains(strings.ToLower(s), "command:") *)
hasCommandColon(l) == l.quoted # "" \/ l.word # ""

isCommandHead(l) ==
    \/ l.quoted # ""
    \/ l.bgworker /\ hasCommandColon(l)
    \/ l.startSec # "" /\ (hasCommandColon(l) \/ l.short # "")

isNetDebugForCmd(l, cmdUpper) ==
    IF cmdUpper = "" THEN FALSE
    ELSE IF l.short # "" THEN ToUpper(ToLower(l.short)) = cmdUpper
    ELSE FALSE

extractCommandAndStart(l) ==
    IF l.quoted # "" THEN [cmd |-> ToUpper(l.quoted), st |-> l.startSec]
    ELSE IF l.word # "" THEN [cmd |-> ToUpper(l.word), st |-> l.startSec]
    ELSE [cmd |-> "", st |-> ""]

hasStartSec(l, st) == l.startSec # "" /\ l.startSec = st

(* The loop of buildItemFromHead: up to the next command head, the lines   *)
(* of the same command and the lines of the same start second.             *)
RECURSIVE gatherRelated(_, _, _, _, _)
gatherRelated(f, P, item, cmd, startSec) ==
    LET r == nextLine(f, P) IN
    IF ~r.ok THEN [p |-> r.p, item |-> item]
    ELSE IF isCommandHead(r.line) THEN [p |-> unread(r.p, r.line), item |-> item]
    ELSE IF isNetDebugForCmd(r.line, cmd)
    THEN gatherRelated(f, r.p, [item EXCEPT !.Lines = Append(@, r.line)], cmd, startSec)
    ELSE IF startSec # "" /\ hasStartSec(r.line, startSec)
    THEN gatherRelated(f, r.p, [item EXCEPT !.Lines = Append(@, r.line)], cmd, startSec)
    ELSE gatherRelated(f, r.p, item, cmd, startSec)

buildItemFromHeadB(f, P, head) ==
    LET item0 == [StartTime |-> parseGlogTs(P, head).t, Lines |-> <<head>>,
                  Type |-> "SLOWLOG"]
        cs == extractCommandAndStart(head)
        g == gatherRelated(f, P, item0, cs.cmd, cs.st)
    IN [g.p EXCEPT !.cur = <<g.item>>]

(* scanYearFromHead: the year of the first created-at line in the head     *)
(* window of the file.                                                     *)
scanYearFromHead(f) ==
    LET n == Min(Len(f), headReadBytes) IN
    IF \E i \in 1..n : f[i].created # ""
    THEN LET i == CHOOSE i \in 1..n :
                    /\ f[i].created # ""
                    /\ \A j \in 1..(i - 1) : f[j].created = ""
         IN [year |-> f[i].created, ok |-> TRUE]
    ELSE [year |-> "", ok |-> FALSE]

RECURSIVE tailLastTsB(_, _, _, _)
tailLastTsB(lines, year, i, lastTs) ==
    IF i > Len(lines) THEN lastTs
    ELSE LET h == parseGlogTsWithYear(lines[i], year) IN
         tailLastTsB(lines, year, i + 1,
                     IF h.ok /\ h.t > lastTs THEN h.t ELSE lastTs)

(* The year fastHasAnyAfter reads the tail with. *)
tailYear(f, P) ==
    LET y1 == P.curYear
        y2 == IF y1 = "" /\ scanYearFromHead(f).ok THEN scanYearFromHead(f).year ELSE y1
    IN defaultYear(y2)

fastHasAnyAfterB(f, P, at) ==
    IF P.file = "nil" THEN FALSE
    ELSE IF Len(f) <= 0 THEN FALSE
    ELSE tailVerdict(tailLastTsB(tailWindow(f), tailYear(f, P), 1, 0), at)

(* The fast-forward loop of Seek: from a head before the target to the     *)
(* first head that is not before it.                                       *)
RECURSIVE skipBeforeB(_, _, _)
skipBeforeB(f, P, at) ==
    LET r == nextLine(f, P) IN
    IF ~r.ok THEN [p |-> r.p, ok |-> FALSE, line |-> <<>>, idx |-> 0]
    ELSE LET t2 == parseGlogTs(r.p, r.line) IN
         IF t2.ok
         THEN IF t2.t < at THEN skipBeforeB(f, r.p, at)
              ELSE [p |-> r.p, ok |-> TRUE, line |-> r.line, idx |-> r.idx]
         ELSE skipBeforeB(f, tryUpdateCreated(r.p, r.line), at)

RECURSIVE seekScanB(_, _, _)
seekScanB(f, P, at) ==
    LET r == nextLine(f, P) IN
    IF ~r.ok THEN [p |-> r.p, err |-> errorsNew("EOF"), head |-> 0]
    ELSE LET ts == parseGlogTs(r.p, r.line) IN
         IF ~ts.ok THEN seekScanB(f, tryUpdateCreated(r.p, r.line), at)
         ELSE LET s == IF ts.t < at THEN skipBeforeB(f, r.p, at)
                       ELSE [p |-> r.p, ok |-> TRUE, line |-> r.line, idx |-> r.idx]
              IN IF ~s.ok THEN [p |-> s.p, err |-> errorsNew("EOF"), head |-> 0]
                 ELSE IF isCommandHead(s.line)
                 THEN [p |-> buildItemFromHeadB(f, s.p, s.line), err |-> "nil",
                       head |-> s.idx]
                 ELSE seekScanB(f, s.p, at)

SeekB(f, P, at) ==
    IF P.file = "nil" THEN [p |-> P, err |-> errorsNew("parser closed"), head |-> 0, fast |-> FALSE]
    ELSE IF ~fastHasAnyAfterB(f, P, at)
    THEN [p |-> P, err |-> errorsNew("EOF"), head |-> 0, fast |-> TRUE]
    ELSE LET s == seekScanB(f, P, at) IN
         [p |-> s.p, err |-> s.err, head |-> s.head, fast |-> FALSE]

RECURSIVE nextScanB(_, _)
nextScanB(f, P) ==
    LET r == nextLine(f, P) IN
    IF ~r.ok THEN [p |-> [r.p EXCEPT !.cur = NoItem], ok |-> FALSE, head |-> 0]
    ELSE IF ~parseGlogTs(r.p, r.line).ok
    THEN nextScanB(f, tryUpdateCreated(r.p, r.line))
    ELSE IF isCommandHead(r.line)
    THEN [p |-> buildItemFromHeadB(f, r.p, r.line), ok |-> TRUE, head |-> r.idx]
    ELSE nextScanB(f, r.p)

NextB(f, P) ==
    IF P.file = "nil" THEN [p |-> P, ok |-> FALSE, head |-> 0]
    ELSE nextScanB(f, P)

----------------------------------------------------------------------------
(* The stream specification: a parser opened on a file, and any sequence   *)
(* of Seek, Next, Value and Close calls on it.                             *)

Seek(v, f, P, at) == IF v = "A" THEN SeekA(f, P, at) ELSE SeekB(f, P, at)
Next_(v, f, P) == IF v = "A" THEN NextA(f, P) ELSE NextB(f, P)

FilesOver(alphabet, n) == UNION {[1..k -> alphabet] : k \in 0..n}

(* The targets Seek is called with: the zero time, every instant a head    *)
(* can carry, and one instant after them all.                              *)
AtsA == 0..(MaxT + 1)
AtsB == {0} \cup {timeInYear(y, m) : y \in {"2024", "2025", "2026"}, m \in 1..MaxT}
            \cup {timeInYear("2026", MaxT) + 1}
Ats(v) == IF v = "A" THEN AtsA ELSE AtsB

NoRet == [op |-> "", at |-> 0, err |-> "", ok |-> FALSE, fast |-> FALSE,
          head |-> 0, fresh |-> FALSE, moved |-> FALSE]

(* recs.on: the specification keeps the history of the items yielded. *)
NoRecs(on) ==
    [on |-> on, live |-> FALSE, head |-> 0, items |-> <<>>, heads |-> <<>>,
     ended |-> FALSE]

(* Whether a call consumed a line or changed the lookahead buffer. *)
Moved(P, Q) == P.sc # Q.sc \/ P.peekBuf # Q.peekBuf

NoTrail == [seek |-> "", calls |-> <<>>]
ZeroItem == [StartTime |-> 0, Lines |-> <<>>, Type |-> ""]

mainIdle ==
    /\ pc = "idle" /\ cli = "" /\ start = 0 /\ end = 0
    /\ mainItem = ZeroItem /\ trail = NoTrail /\ parsed = <<>>

aggIdle == metrics = <<>> /\ agg = <<>> /\ out = {}

NoRes == [metrics |-> <<>>, nil |-> TRUE, err |-> ""]

exprIdle ==
    /\ formula = <<>> /\ outName = <<>> /\ env = <<>> /\ exprs = <<>>
    /\ res = NoRes

streamIdle ==
    /\ variant = "" /\ disk = <<>> /\ p = NewParser /\ ret = NoRet
    /\ recs = NoRecs(FALSE)

InitStream(variants, filesA, filesB, on) ==
    /\ variant \in variants
    /\ disk \in (IF variant = "A" THEN filesA ELSE filesB)
    /\ p = NewParser
    /\ ret = NoRet
    /\ recs = NoRecs(on)
    /\ mainIdle
    /\ aggIdle
    /\ exprIdle

SeekOp ==
    /\ ~p.panicked
    /\ \E at \in Ats(variant) :
         LET s == Seek(variant, disk, p, at) IN
         /\ p' = s.p
         /\ ret' = [op |-> "Seek", at |-> at, err |-> ErrorText(s.err), ok |-> s.err = "nil",
                    fast |-> s.fast, head |-> s.head, fresh |-> p = NewParser,
                    moved |-> Moved(p, s.p)]
         /\ recs' = IF ~recs.on THEN recs
                    ELSE IF s.err = "nil"
                    THEN [on |-> TRUE, live |-> TRUE, head |-> s.head,
                          items |-> <<Value(s.p).item>>, heads |-> <<s.head>>,
                          ended |-> FALSE]
                    ELSE NoRecs(TRUE)
    /\ UNCHANGED <<variant, disk, mainVars, aggVars, exprVars>>

NextOp ==
    /\ ~p.panicked
    /\ LET n == Next_(variant, disk, p) IN
       /\ p' = n.p
       /\ ret' = [op |-> "Next", at |-> 0, err |-> "", ok |-> n.ok, fast |-> FALSE,
                  head |-> n.head, fresh |-> FALSE, moved |-> Moved(p, n.p)]
       /\ recs' = IF ~recs.live THEN recs
                  ELSE IF n.ok THEN [recs EXCEPT !.items = Append(@, Value(n.p).item),
                                                 !.heads = Append(@, n.head)]
                  ELSE IF p.file = "open" THEN [recs EXCEPT !.ended = TRUE]
                  ELSE recs
    /\ UNCHANGED <<variant, disk, mainVars, aggVars, exprVars>>

ValueOp ==
    /\ ~p.panicked
    /\ ret.op # "Value"
    /\ ret' = [op |-> "Value", at |-> 0, err |-> ErrorText(Value(p).err),
               ok |-> Value(p).err = "nil",
               fast |-> FALSE, head |-> 0, fresh |-> FALSE, moved |-> FALSE]
    /\ UNCHANGED <<variant, disk, p, recs, mainVars, aggVars, exprVars>>

CloseOp ==
    /\ ~p.panicked
    /\ p.file = "open"
    /\ p' = Close(p)
    /\ ret' = [op |-> "Close", at |-> 0, err |-> "nil", ok |-> TRUE, fast |-> FALSE,
               head |-> 0, fresh |-> FALSE, moved |-> FALSE]
    /\ UNCHANGED <<variant, disk, recs, mainVars, aggVars, exprVars>>

NextStream == SeekOp \/ NextOp \/ ValueOp \/ CloseOp

Init == InitStream({"A", "B"}, FilesOver(LinesA, MaxLen), FilesOver(LinesB, MaxLen), FALSE)

Spec == Init /\ [][NextStream]_vars

----------------------------------------------------------------------------
(* What the claims say about a file, stated on the file itself.            *)

SetMax(S) == CHOOSE x \in S : \A y \in S : y <= x
SetMin(S) == CHOOSE x \in S : \A y \in S : x <= y

(* The year in force at line i of a slow log: that of the last created-at  *)
(* line before it, 2025 when there is none.                                *)
YearAt(f, i) ==
    LET M == {j \in 1..(i - 1) : f[j].created # ""} IN
    IF M = {} THEN "2025" ELSE f[SetMax(M)].created

(* The time of the record head at line i, 0 when line i is no record head  *)
(* (variant B: no command head) or its time is no date.                    *)
HeadTimeAt(v, f, i) ==
    IF v = "A"
    THEN IF f[i].tok = "micro" THEN f[i].time ELSE 0
    ELSE IF f[i].glog = "valid" /\ isCommandHead(f[i])
         THEN timeInYear(YearAt(f, i), f[i].md) ELSE 0

(* The heads of the file that lie at or after the target. *)
HeadsFrom(v, f, at) ==
    {i \in 1..Len(f) : HeadTimeAt(v, f, i) # 0 /\ HeadTimeAt(v, f, i) >= at}

C3_StartTimeNonZero ==
    Value(p).err = "nil" => Value(p).item.StartTime # 0

(* The head times fastHasAnyAfter can read in the last tailReadBytes of    *)
(* the file, for a parser in state P.                                      *)
TailTimes(v, f, P) ==
    LET W == tailWindow(f) IN
    IF v = "A"
    THEN {W[i].time : i \in {k \in 1..Len(W) : W[k].tok \in {"micro", "sec"}}}
    ELSE {timeInYear(tailYear(f, P), W[i].md) :
             i \in {k \in 1..Len(W) : W[k].glog = "valid"}}

----------------------------------------------------------------------------
(* The segmentation specification: variant A on files of dump heads,       *)
(* marker heads and continuation lines, the yielded items being recorded.  *)

InitSeg == InitStream({"A"}, FilesOver(LinesSeg, MaxSegLen), {}, TRUE)

NextSeg == SeekOp \/ NextOp

SpecSeg == InitSeg /\ [][NextSeg]_vars


(* The lines of the yielded items, one after the other. *)
RECURSIVE YieldedLines(_)
YieldedLines(items) ==
    IF items = <<>> THEN <<>> ELSE Head(items).Lines \o YieldedLines(Tail(items))

(* The last line the parser has handed out and not pushed back. *)
Consumed(P) == P.sc - Len(P.peekBuf)

(* The places inside an item, after its first line, that hold a head. *)
InnerHeads(item) == {j \in 2..Len(item.Lines) : reTsMatch(item.Lines[j])}

(* C5: after a successful Seek at head h, the records Value returns after  *)
(* the Seek and after each successful Next partition the file from h on:   *)
(* each starts with a head and runs up to the next head (the head folded   *)
(* in by the dump rule aside), their lines in order are the lines of the   *)
(* file from h to where the parser stands, and to the end of the file once *)
(* Next has returned false.                                                *)
C5_Partition ==
    recs.live =>
        /\ \A k \in 1..Len(recs.items) :
              /\ reTsMatch(recs.items[k].Lines[1])
              /\ \/ InnerHeads(recs.items[k]) = {}
                 \/ /\ Cardinality(InnerHeads(recs.items[k])) = 1
                    /\ classifyHead(recs.items[k].Lines[1]) = "DUMP"
                    /\ \A j \in InnerHeads(recs.items[k]) :
                          isDBStatsHead(recs.items[k].Lines[j])
        /\ reTsMatch(disk[recs.head])
        /\ YieldedLines(recs.items) = SubSeq(disk, recs.head, Consumed(p))
        /\ Consumed(p) < Len(disk) => reTsMatch(disk[Consumed(p) + 1])
        /\ recs.ended => Consumed(p) = Len(disk)

(* Two records yielded, the first of more than one line, and the end of    *)
(* the file reached.                                                       *)
C5_Witness ==
    /\ recs.live /\ recs.ended
    /\ Len(recs.items) >= 2
    /\ Len(recs.items[1].Lines) >= 2
    /\ recs.head > 1

(* Where the k-th yielded item starts in the file. *)
ItemStart(k) == recs.head + Len(YieldedLines(SubSeq(recs.items, 1, k - 1)))

(* The first head of the file after line i, Len(f) + 1 when there is none. *)
HeadAfter(f, i) ==
    LET H == {j \in (i + 1)..Len(f) : reTsMatch(f[j])} IN
    IF H = {} THEN Len(f) + 1 ELSE SetMin(H)

(* The k-th yielded item holds the lines of its head's block and of the    *)
(* marker block that follows it, and the item after it starts at the first *)
(* head after the marker block.                                            *)
Merged(k) ==
    LET s == ItemStart(k)
        n == HeadAfter(disk, s)
        e == HeadAfter(disk, n) - 1
    IN /\ recs.items[k].Lines = SubSeq(disk, s, e)
       /\ k < Len(recs.items) =>
             /\ ItemStart(k + 1) = e + 1
             /\ recs.items[k + 1].Lines[1] = disk[e + 1]

(* The head after the k-th yielded item's head carries the dump marker. *)
MarkerFollows(k) ==
    LET n == HeadAfter(disk, ItemStart(k)) IN
    n <= Len(disk) /\ isDBStatsHead(disk[n])

(* C6 as the claim has it: a record whose category is periodic dump and    *)
(* whose next head carries the dump marker is one merged record.           *)
C6_Original ==
    recs.live =>
        \A k \in 1..Len(recs.items) :
            (recs.items[k].Type = "DUMP" /\ MarkerFollows(k)) => Merged(k)

(* C6, amended: a record whose head line gives it the category periodic    *)
(* dump and whose next head carries the dump marker is one merged record:  *)
(* it holds, in file order, the first head, its continuation lines, the    *)
(* marker head and the marker head's continuation lines, and the record    *)
(* the following Next returns starts at the first head after the marker    *)
(* block.                                                                  *)
C6_DumpMerge ==
    recs.live =>
        \A k \in 1..Len(recs.items) :
            (classifyHead(recs.items[k].Lines[1]) = "DUMP" /\ MarkerFollows(k))
                => (Merged(k) /\ recs.items[k].Type = "DUMP")

(* A merged record with a continuation line, followed by another record. *)
C6_Witness ==
    /\ recs.live
    /\ Len(recs.items) >= 2
    /\ \E k \in 1..(Len(recs.items) - 1) :
          /\ recs.items[k].Lines[1].kw = "DUMPING STATS"
          /\ InnerHeads(recs.items[k]) # {}
          /\ Len(recs.items[k].Lines) >= 3

----------------------------------------------------------------------------
(* The command framing specification: variant B on files of command heads  *)
(* and of the lines that can follow them, the yielded items being          *)
(* recorded.                                                               *)

InitCmd == InitStream({"B"}, {}, FilesOver(LinesCmd, MaxCmdLen), TRUE)

SpecCmd == InitCmd /\ [][NextSeg]_vars


(* The command token of a head line: that of its command:"..." field, of   *)
(* its command: field or of its cmd: field.                                *)
HeadToken(h) ==
    IF h.quoted # "" THEN h.quoted ELSE IF h.word # "" THEN h.word ELSE h.short

(* Line l belongs to the record of head h: it is a debug line of the same  *)
(* command, or it carries the head's start_time(s).                        *)
Related(h, l) ==
    \/ l.short # "" /\ ToUpper(l.short) = ToUpper(HeadToken(h))
    \/ h.startSec # "" /\ l.startSec = h.startSec

(* The first command head of the file after line i, Len(f) + 1 for none. *)
CommandHeadAfter(f, i) ==
    LET H == {j \in (i + 1)..Len(f) : isCommandHead(f[j])} IN
    IF H = {} THEN Len(f) + 1 ELSE SetMin(H)

(* The record of the command head at line i, as the claim describes it. *)
CommandRecord(f, i) ==
    LET Belongs(l) == Related(f[i], l) IN
    <<f[i]>> \o SelectSeq(SubSeq(f, i + 1, CommandHeadAfter(f, i) - 1), Belongs)

(* C7: the record built from a command head is the head followed by        *)
(* exactly those lines before the next command head that are debug lines   *)
(* of the head's command (ignoring case) or carry the head's               *)
(* start_time(s) value.                                                    *)
C7_CommandRecord ==
    recs.live =>
        \A k \in 1..Len(recs.items) :
            recs.items[k].Lines = CommandRecord(disk, recs.heads[k])

(* The same for the heads whose command stands in a command: field. *)
C7_CommandFieldHeads ==
    recs.live =>
        \A k \in 1..Len(recs.items) :
            hasCommandColon(disk[recs.heads[k]]) =>
                recs.items[k].Lines = CommandRecord(disk, recs.heads[k])

----------------------------------------------------------------------------
(* The driving loops: main of the single-file command (cli = "single") and *)
(* main of the chart command (cli = "chart"), which reads one file after   *)
(* the other.  The metric parser is external: parsed records the items it  *)
(* is handed.                                                              *)

MainTimes == {0, MaxT, timeInYear("2025", MaxT), timeInYear("2026", MaxT) + 1}

MainFiles(v) ==
    IF v = "A" THEN FilesOver(LinesA, MaxMainLen) ELSE FilesOver(LinesB, MaxMainLen)

InitMain ==
    /\ cli \in {"single", "chart"}
    /\ start \in MainTimes
    /\ end \in MainTimes
    /\ pc = "open"
    /\ mainItem = ZeroItem /\ trail = NoTrail /\ parsed = <<>>
    /\ streamIdle
    /\ aggIdle
    /\ exprIdle

Called(name) == [trail EXCEPT !.calls = Append(@, name)]

(* NewRocksDLogParser(p) or NewPikaSlowLogItemParser(p); in the chart      *)
(* command, also the end of the loop over the files.                       *)
MainOpen ==
    /\ pc = "open"
    /\ \/ /\ \E v \in {"A", "B"} : \E f \in MainFiles(v) :
                variant' = v /\ disk' = f
          /\ p' = NewParser
          /\ mainItem' = ZeroItem /\ trail' = NoTrail /\ parsed' = <<>>
          /\ pc' = "seek"
       \/ /\ cli = "chart"
          /\ pc' = "done"
          /\ UNCHANGED <<variant, disk, p, mainItem, trail, parsed>>
    /\ UNCHANGED <<ret, recs, cli, start, end, aggVars, exprVars>>

(* The error test of the chart command's loop: err is io.EOF itself. *)
chartIsEOF(err) == err = ioSentinelEOF

(* The error test of the single-file command: the text of err is "EOF". *)
singleIsEOF(err) == ErrorText(err) = "EOF"

(* parser.Seek(start) and the branch on its error. *)
MainSeek ==
    /\ pc = "seek"
    /\ LET s == Seek(variant, disk, p, start) IN
       /\ p' = s.p
       /\ trail' = [seek |-> ErrorText(s.err), calls |-> <<>>]
       /\ pc' = IF cli = "chart"
                THEN IF chartIsEOF(s.err) THEN "close" ELSE "value"
                ELSE IF s.err # "nil"
                     THEN IF singleIsEOF(s.err) THEN "exit0" ELSE "exit1"
                     ELSE "value"
    /\ UNCHANGED <<variant, disk, ret, recs, cli, start, end, mainItem, parsed, aggVars, exprVars>>

(* item, err := parser.Value() and the test that follows it. *)
MainValue ==
    /\ pc = "value"
    /\ LET v == Value(p) IN
       /\ mainItem' = v.item
       /\ trail' = Called("Value")
       /\ pc' = IF cli = "chart"
                THEN IF chartIsEOF(v.err) \/ v.item.StartTime > end
                     THEN "close" ELSE "parse"
                ELSE IF v.err # "nil"
                     THEN IF trail.calls = <<>> THEN "exit1" ELSE "close"
                     ELSE "check"
    /\ UNCHANGED <<variant, disk, p, ret, recs, cli, start, end, parsed, aggVars, exprVars>>

(* The single-file command's test at the top of its loop. *)
MainCheck ==
    /\ pc = "check"
    /\ pc' = IF mainItem.StartTime > end THEN "close" ELSE "parse"
    /\ UNCHANGED <<streamVars, cli, start, end, mainItem, trail, parsed, aggVars, exprVars>>

(* mp.Parse(item) *)
MainParse ==
    /\ pc = "parse"
    /\ parsed' = Append(parsed, mainItem)
    /\ pc' = "next"
    /\ UNCHANGED <<streamVars, cli, start, end, mainItem, trail, aggVars, exprVars>>

(* parser.Next() *)
MainNext ==
    /\ pc = "next"
    /\ LET n == Next_(variant, disk, p) IN
       /\ p' = n.p
       /\ trail' = Called("Next")
       /\ pc' = IF n.ok THEN "value" ELSE "close"
    /\ UNCHANGED <<variant, disk, ret, recs, cli, start, end, mainItem, parsed, aggVars, exprVars>>

(* parser.Close(): at the end of a file in the chart command, deferred to  *)
(* the end of main in the single-file command.                             *)
MainClose ==
    /\ pc = "close"
    /\ p' = Close(p)
    /\ pc' = IF cli = "chart" THEN "open" ELSE "done"
    /\ UNCHANGED <<variant, disk, ret, recs, cli, start, end, mainItem, trail, parsed, aggVars, exprVars>>

NextMain ==
    MainOpen \/ MainSeek \/ MainValue \/ MainCheck \/ MainParse \/ MainNext \/ MainClose

SpecMain == InitMain /\ [][NextMain]_vars

(* C4: in every driving loop, when Seek(start) reports end of data for a   *)
(* file, the loop calls neither Value nor Next on that stream afterwards   *)
(* and hands no record of that file to the metric extractor.               *)
C4_SeekEOFStops ==
    trail.seek = "EOF" => (trail.calls = <<>> /\ parsed = <<>>)

(* The same for the single-file command alone. *)
C4_SingleFile ==
    (cli = "single" /\ trail.seek = "EOF") => (trail.calls = <<>> /\ parsed = <<>>)

----------------------------------------------------------------------------
(* The bucket aggregator.  A time is a count of ticks after the zero       *)
(* instant of time.Time (0 is the zero time); a second is Second ticks, so *)
(* that times and steps below the second exist.  All times are in one      *)
(* location of fixed offset, as ParseInLocation(.., time.Local) makes them.*)
(* Values are integers: rounding of float64 is not modelled.               *)

Second == 2

Modes == {"Count", "Sum", "First", "Avg", "Delta"}
LogTypeOther == "OTHER"

Metric(st, t, name, value) ==
    [SourceType |-> st, StartTime |-> t, Name |-> name, Value |-> value]

IsZero(t) == t = 0

(* time.Time.Truncate(d): t rounded down to a multiple of d since the zero *)
(* time; t itself when d <= 0.                                             *)
Truncate(t, d) == IF d <= 0 THEN t ELSE t - (t % d)

alignNoStep(t, step) == Truncate(t, Second)
alignToBucketStart(t, step) ==
    IF step <= 0 THEN Truncate(t, Second)
    ELSE LET aligned == Truncate(t, step) IN Truncate(aligned, Second)

(* t.Format("2006/01/02-15:04:05"): the wall clock of t to the second; the *)
(* layout prints nothing below the second.                                 *)
Format(t) == t \div Second

NewBucketAggregator(step, mode) ==
    [Step |-> step, Mode |-> mode, GroupBySource |-> TRUE]

groupSourceAlways(a, in) == in.SourceType
groupSource(a, in) == IF a.GroupBySource THEN in.SourceType ELSE LogTypeOther

RECURSIVE GCD(_, _)
GCD(x, y) == IF y = 0 THEN x ELSE GCD(y, x % y)

(* sum / count in float64, kept exact as the reduced fraction.  Values    *)
(* are not negative here.                                                  *)
Quotient(sum, count) ==
    LET g == GCD(sum, count) IN [num |-> sum \div g, den |-> count \div g]

(* The loop over the metrics of the four modes that are not Delta: m is    *)
(* the map from bucket key to accumulator.                                 *)
skipsZeroNever(in) == FALSE
skipsZero(in) == IsZero(in.StartTime)

(* The test that makes a point the first of its group. *)
isEarliestInInput(ac, in) == ~ac.firstSet
isEarliest(ac, in) == ~ac.firstSet \/ in.StartTime < ac.firstTime

RECURSIVE accumulate(_, _, _)
accumulate(a, ms, m) ==
    IF ms = <<>> THEN m
    ELSE LET in == Head(ms) IN
         IF skipsZero(in) THEN accumulate(a, Tail(ms), m)
         ELSE LET bkt == alignToBucketStart(in.StartTime, a.Step)
                  source == groupSource(a, in)
                  key == <<Format(bkt), in.Name, source>>
                  ac == IF key \in DOMAIN m THEN m[key]
                        ELSE [name |-> in.Name, st |-> source, bkt |-> bkt,
                              sum |-> 0, count |-> 0,
                              firstVal |-> 0, firstTime |-> 0, firstSet |-> FALSE]
                  earliest == isEarliest(ac, in)
                  ac2 == [ac EXCEPT !.count = @ + 1,
                                    !.sum = @ + in.Value,
                                    !.firstSet = @ \/ earliest,
                                    !.firstTime = IF earliest THEN in.StartTime ELSE @,
                                    !.firstVal = IF earliest THEN in.Value ELSE @]
              IN accumulate(a, Tail(ms), (key :> ac2) @@ m)

(* The switch on a.Mode that turns an accumulator into an output metric. *)
reduce(a, ac) ==
    CASE a.Mode = "Count" -> Metric(ac.st, ac.bkt, ac.name \o "_Count", ac.count)
      [] a.Mode = "Sum"   -> Metric(ac.st, ac.bkt, ac.name \o "_Sum", ac.sum)
      [] a.Mode = "First" -> Metric(ac.st, ac.bkt, ac.name \o "_First", ac.firstVal)
      [] a.Mode = "Avg"   -> Metric(ac.st, ac.bkt, ac.name \o "_Avg",
                                    IF ac.count > 0 THEN Quotient(ac.sum, ac.count)
                                    ELSE Quotient(0, 1))
      [] OTHER            -> Metric(ac.st, ac.bkt, ac.name \o "_Sum", ac.sum)

(* Delta mode: the series of the input, by name and source. *)
seriesKey(a, in) == <<in.Name, groupSource(a, in)>>

seriesMap(a, ms) ==
    LET kept == SelectSeq(ms, LAMBDA in : ~skipsZero(in))
        keys == {seriesKey(a, kept[i]) : i \in DOMAIN kept}
    IN [k \in keys |->
          [name |-> k[1], st |-> k[2],
           pts |-> SelectSeq(kept, LAMBDA in : seriesKey(a, in) = k)]]

(* sort.Slice(pts, by StartTime.Before): the sort is not stable, so every  *)
(* arrangement of pts in which no point stands before an earlier one is a  *)
(* possible result.                                                        *)
sortSlice(pts) ==
    LET n == Len(pts)
        arranged == {[i \in 1..n |-> pts[pi[i]]] : pi \in Permutations(1..n)}
    IN {q \in arranged :
          \A i \in 1..n : \A j \in 1..n : i < j => ~(q[j].StartTime < q[i].StartTime)}

(* The loop over the sorted points of one series. *)
deltaFromZero(prevSet, prev, value) == value - prev
deltaOf(prevSet, prev, value) == IF prevSet THEN value - prev ELSE 0

RECURSIVE accumulateDeltas(_, _, _, _, _, _)
accumulateDeltas(a, s, pts, prevSet, prev, buckets) ==
    IF pts = <<>> THEN buckets
    ELSE LET pt == Head(pts)
             delta == deltaOf(prevSet, prev, pt.Value)
             bkt == alignToBucketStart(pt.StartTime, a.Step)
             key == <<Format(bkt), s.name, s.st>>
             ac == IF key \in DOMAIN buckets THEN buckets[key]
                   ELSE [sum |-> 0, st |-> s.st, bkt |-> bkt, nm |-> s.name]
             ac2 == [ac EXCEPT !.sum = @ + delta]
         IN accumulateDeltas(a, s, Tail(pts), TRUE, pt.Value, (key :> ac2) @@ buckets)

(* The loop over the series; sorted gives each series' points as sorted.   *)
RECURSIVE accumulateSeries(_, _, _, _, _)
accumulateSeries(a, sm, sorted, keys, buckets) ==
    IF keys = {} THEN buckets
    ELSE LET k == CHOOSE k \in keys : TRUE
         IN accumulateSeries(a, sm, sorted, keys \ {k},
                accumulateDeltas(a, sm[k], sorted[k], FALSE, 0, buckets))

RECURSIVE sortedSeries(_, _)
sortedSeries(sm, keys) ==
    IF keys = {} THEN {<<>>}
    ELSE LET k == CHOOSE k \in keys : TRUE
         IN {(k :> q) @@ rest : q \in sortSlice(sm[k].pts),
                                rest \in sortedSeries(sm, keys \ {k})}

(* Aggregate(metrics): the slices the call can return, each as the set of  *)
(* its elements (the order of the result is that of a map iteration).      *)
Aggregate(a, ms) ==
    IF a.Mode = "Delta"
    THEN LET sm == seriesMap(a, ms) IN
         {LET buckets == accumulateSeries(a, sm, sorted, DOMAIN sm, <<>>) IN
            {Metric(buckets[key].st, buckets[key].bkt,
                    buckets[key].nm \o "_Delta", buckets[key].sum) : key \in DOMAIN buckets}
          : sorted \in sortedSeries(sm, DOMAIN sm)}
    ELSE LET m == accumulate(a, ms, <<>>) IN
         {{reduce(a, m[key]) : key \in DOMAIN m}}

Steps == {0, MaxStep - 1, MaxStep}

Points ==
    {Metric("DUMP", t, "a", value) : t \in 0..MaxTick, value \in 1..MaxVal}
    \cup {Metric("SLOWLOG", t, "a", MaxVal) : t \in 0..MaxTick}
    \cup {Metric("DUMP", t, "b", 1) : t \in 0..MaxTick}

RECURSIVE SeqsUpTo(_, _)
SeqsUpTo(S, n) ==
    IF n = 0 THEN {<<>>}
    ELSE LET shorter == SeqsUpTo(S, n - 1)
         IN shorter \cup {Append(q, x) : q \in shorter, x \in S}

InitAgg ==
    /\ metrics \in SeqsUpTo(Points, MaxPts)
    /\ \E step \in Steps : \E mode \in Modes : \E g \in BOOLEAN :
          agg = [NewBucketAggregator(step, mode) EXCEPT !.GroupBySource = g]
    /\ out = {}
    /\ pc = "aggregate"
    /\ cli = "" /\ start = 0 /\ end = 0
    /\ mainItem = ZeroItem /\ trail = NoTrail /\ parsed = <<>>
    /\ streamIdle
    /\ exprIdle

AggregateOp ==
    /\ pc = "aggregate"
    /\ out' \in Aggregate(agg, metrics)
    /\ pc' = "aggregated"
    /\ UNCHANGED <<streamVars, cli, start, end, mainItem, trail, parsed, metrics, agg, exprVars>>

NextAgg == AggregateOp

SpecAgg == InitAgg /\ [][NextAgg]_vars

Aggregated == pc = "aggregated"

NonZero(ms) == SelectSeq(ms, LAMBDA in : in.StartTime # 0)

(* The points of the input that survive, by position, and their groups. *)
Kept == {i \in DOMAIN metrics : metrics[i].StartTime # 0}
GroupSource(i) == IF agg.GroupBySource THEN metrics[i].SourceType ELSE "OTHER"
SeriesKeys == {<<metrics[i].Name, GroupSource(i)>> : i \in Kept}
SeriesPoints(k) == {i \in Kept : <<metrics[i].Name, GroupSource(i)>> = k}
DistinctTimes(I) ==
    \A i \in I : \A j \in I : i # j => metrics[i].StartTime # metrics[j].StartTime

(* The predecessor of point i in its series I, in ascending time order. *)
Earlier(I, i) == {j \in I : metrics[j].StartTime < metrics[i].StartTime}
Predecessor(I, i) ==
    CHOOSE j \in Earlier(I, i) :
        \A h \in Earlier(I, i) : metrics[h].StartTime <= metrics[j].StartTime
Increment(I, i) ==
    IF Earlier(I, i) = {} THEN 0
    ELSE metrics[i].Value - metrics[Predecessor(I, i)].Value

RECURSIVE SumIncrements(_, _)
SumIncrements(I, J) ==
    IF J = {} THEN 0
    ELSE LET j == CHOOSE j \in J : TRUE
         IN Increment(I, j) + SumIncrements(I, J \ {j})

Floor(t, step) == step * (t \div step)

DeltaExpected(k) ==
    LET I == SeriesPoints(k)
        bucket(i) == Floor(Floor(metrics[i].StartTime, agg.Step), Second)
        floorSec(i) == Floor(metrics[i].StartTime, Second)
        b(i) == IF agg.Step > 0 THEN bucket(i) ELSE floorSec(i)
    IN {Metric(k[2], b(i), k[1] \o "_Delta",
               SumIncrements(I, {j \in I : b(j) = b(i)})) : i \in I}

OutOfSeries(k) == {o \in out : o.Name = k[1] \o "_Delta" /\ o.SourceType = k[2]}

(* C8: in Delta mode, for every series (name, [category]) whose points     *)
(* have pairwise distinct times and for every bucket, the output value is  *)
(* the sum, over the series' points in the bucket, of the point's value    *)
(* minus the value of its predecessor in the series' ascending time order  *)
(* (wherever that predecessor lies), the earliest point contributing 0.    *)
C8_DeltaMode ==
    (Aggregated /\ agg.Mode = "Delta") =>
        \A k \in SeriesKeys :
            DistinctTimes(SeriesPoints(k)) => OutOfSeries(k) = DeltaExpected(k)

(* Three points of one series in one bucket, given out of time order, and  *)
(* a bucket total that is not zero.                                        *)
C8_Witness ==
    /\ Aggregated /\ agg.Mode = "Delta" /\ agg.Step = MaxStep
    /\ Len(metrics) = 3
    /\ \E k \in SeriesKeys :
          /\ SeriesPoints(k) = {1, 2, 3}
          /\ DistinctTimes({1, 2, 3})
          /\ metrics[2].StartTime < metrics[1].StartTime
          /\ \A i \in {1, 2, 3} : metrics[i].StartTime < MaxStep
          /\ \E o \in OutOfSeries(k) : o.Value # 0 /\ out = {o}

(* C9: in every mode, Aggregate(M) is Aggregate(M without its zero-time    *)
(* points): a zero-time point adds to no group, creates no output group    *)
(* and is no previous value of a delta series.                             *)
C9_ZeroTimeDropped ==
    Aggregated =>
        /\ out \in Aggregate(agg, NonZero(metrics))
        /\ Aggregate(agg, metrics) = Aggregate(agg, NonZero(metrics))

(* A zero-time point in the same group as a point that is kept. *)
C9_Witness ==
    /\ Aggregated
    /\ out # {}
    /\ \E i \in DOMAIN metrics : \E j \in Kept :
          /\ metrics[i].StartTime = 0
          /\ metrics[i].Name = metrics[j].Name
          /\ metrics[i].SourceType = metrics[j].SourceType
          /\ metrics[i].Value # metrics[j].Value
          /\ i < j

ModeSuffix ==
    CASE agg.Mode = "Count" -> "_Count"
      [] agg.Mode = "Sum"   -> "_Sum"
      [] agg.Mode = "First" -> "_First"
      [] agg.Mode = "Avg"   -> "_Avg"
      [] agg.Mode = "Delta" -> "_Delta"

WholeSeconds(step) == step % Second = 0

(* The points that contribute to output metric o. *)
Contributing(o) ==
    {i \in Kept : /\ o.Name = metrics[i].Name \o ModeSuffix
                  /\ o.SourceType = GroupSource(i)
                  /\ o.StartTime <= metrics[i].StartTime
                  /\ \A q \in out :
                        (q.Name = o.Name /\ q.SourceType = o.SourceType
                         /\ q.StartTime <= metrics[i].StartTime)
                        => q.StartTime <= o.StartTime}

(* C10: in every mode, for a step > 0 of whole seconds the time b of an    *)
(* output metric is step * floor(t / step) for every contributing point    *)
(* time t, so b <= t < b + step and aligning b again gives b; for a step   *)
(* <= 0 it is t truncated to whole seconds; every kept point contributes   *)
(* to an output metric.                                                    *)
C10_BucketAlignment ==
    (Aggregated /\ (agg.Step <= 0 \/ WholeSeconds(agg.Step))) =>
        /\ \A i \in Kept : \E o \in out : i \in Contributing(o)
        /\ \A o \in out :
              /\ Contributing(o) # {}
              /\ \A i \in Contributing(o) :
                    LET t == metrics[i].StartTime IN
                    IF agg.Step > 0
                    THEN /\ o.StartTime = Floor(t, agg.Step)
                         /\ o.StartTime <= t /\ t < o.StartTime + agg.Step
                         /\ alignToBucketStart(o.StartTime, agg.Step) = o.StartTime
                    ELSE o.StartTime = Floor(t, Second)

(* A point whose bucket starts before the second it lies in. *)
C10_Witness ==
    /\ Aggregated /\ agg.Step > 0 /\ WholeSeconds(agg.Step)
    /\ \E o \in out : \E i \in Contributing(o) :
          o.StartTime < Floor(metrics[i].StartTime, Second)

(* The group of kept point i: the kept points of its bucket, name and     *)
(* category.                                                               *)
BucketOf(i) == alignToBucketStart(metrics[i].StartTime, agg.Step)
GroupOf(i) ==
    {j \in Kept : /\ metrics[j].Name = metrics[i].Name
                  /\ GroupSource(j) = GroupSource(i)
                  /\ BucketOf(j) = BucketOf(i)}
OutOfGroup(i) ==
    {o \in out : /\ o.Name = metrics[i].Name \o ModeSuffix
                 /\ o.SourceType = GroupSource(i)
                 /\ o.StartTime = BucketOf(i)}

(* C11: in First mode the output value of every group is the value of a    *)
(* point of the group whose own time, before alignment, is minimal in the  *)
(* group, wherever that point stands in the input, and the output name is  *)
(* the input name followed by _First.                                      *)
C11_FirstMode ==
    (Aggregated /\ agg.Mode = "First") =>
        /\ \A i \in Kept :
              /\ OutOfGroup(i) # {}
              /\ \A o \in OutOfGroup(i) :
                    \E j \in GroupOf(i) :
                        /\ o.Value = metrics[j].Value
                        /\ \A h \in GroupOf(i) :
                              metrics[j].StartTime <= metrics[h].StartTime
        /\ \A o \in out : \E i \in Kept : o \in OutOfGroup(i)

(* A group whose earliest point comes second in the input and has another  *)
(* value than the point before it.                                         *)
C11_Witness ==
    /\ Aggregated /\ agg.Mode = "First"
    /\ \E i \in Kept : \E j \in GroupOf(i) :
          /\ i < j
          /\ metrics[j].StartTime < metrics[i].StartTime
          /\ metrics[j].Value # metrics[i].Value
          /\ \A h \in GroupOf(i) : metrics[j].StartTime <= metrics[h].StartTime
          /\ \E o \in OutOfGroup(i) : o.Value = metrics[j].Value

GroupKeys == {<<BucketOf(i), metrics[i].Name, GroupSource(i)>> : i \in Kept}

(* C12: in all five modes, with GroupBySource false every output metric    *)
(* carries the category OTHER and there is exactly one output metric per   *)
(* (aligned bucket time, name) of the kept points; with GroupBySource true *)
(* there is exactly one per (aligned bucket time, name, category), with    *)
(* that category.                                                          *)
C12_Grouping ==
    Aggregated =>
        /\ \A k \in GroupKeys :
              Cardinality({o \in out : /\ o.StartTime = k[1]
                                       /\ o.Name = k[2] \o ModeSuffix
                                       /\ o.SourceType = k[3]}) = 1
        /\ Cardinality(out) = Cardinality(GroupKeys)
        /\ ~agg.GroupBySource =>
              /\ \A o \in out : o.SourceType = "OTHER"
              /\ Cardinality(out) =
                    Cardinality({<<BucketOf(i), metrics[i].Name>> : i \in Kept})
        /\ agg.GroupBySource =>
              Cardinality(out) =
                  Cardinality({<<BucketOf(i), metrics[i].Name, metrics[i].SourceType>> :
                                  i \in Kept})

(* Delta mode without the category in the key: two points of one name and  *)
(* bucket and of different categories give one output metric.              *)
C12_Witness ==
    /\ Aggregated /\ agg.Mode = "Delta" /\ ~agg.GroupBySource
    /\ Cardinality(out) = 1
    /\ \E i \in Kept : \E j \in Kept :
          /\ metrics[i].SourceType # metrics[j].SourceType
          /\ metrics[i].Name = metrics[j].Name
          /\ BucketOf(i) = BucketOf(j)
          /\ metrics[i].StartTime # metrics[j].StartTime

----------------------------------------------------------------------------
(* The expression engine.  A string is the sequence of its characters.  A  *)
(* float64 is a fraction num/den in lowest terms, den > 0; den = 0 stands  *)
(* for the values that are no numbers: 1/0 is +Inf, -1/0 is -Inf and 0/0   *)
(* is NaN.  Rounding and overflow of finite values are not modelled.       *)

Abs(x) == IF x < 0 THEN -x ELSE x
Sign(x) == IF x < 0 THEN -1 ELSE IF x > 0 THEN 1 ELSE 0

Float(n, d) ==
    LET g == GCD(Abs(n), Abs(d)) IN
    IF d = 0 THEN [num |-> Sign(n), den |-> 0]
    ELSE [num |-> Sign(d) * (n \div g), den |-> Abs(d) \div g]

NaN == Float(0, 0)
IsNaN(x) == x.den = 0 /\ x.num = 0
IsInf(x) == x.den = 0 /\ x.num # 0
IsZeroFloat(x) == x.den # 0 /\ x.num = 0

(* a + b, a - b, a * b and a / b of float64 *)
fadd(a, b) ==
    IF IsNaN(a) \/ IsNaN(b) THEN NaN
    ELSE IF IsInf(a) /\ IsInf(b) THEN (IF a.num = b.num THEN a ELSE NaN)
    ELSE IF IsInf(a) THEN a
    ELSE IF IsInf(b) THEN b
    ELSE Float(a.num * b.den + b.num * a.den, a.den * b.den)

fsub(a, b) == fadd(a, [num |-> -b.num, den |-> b.den])

fmul(a, b) ==
    IF IsNaN(a) \/ IsNaN(b) THEN NaN
    ELSE IF IsInf(a) \/ IsInf(b) THEN Float(Sign(a.num) * Sign(b.num), 0)
    ELSE Float(a.num * b.num, a.den * b.den)

(* a / b for b that is not zero *)
fdiv(a, b) ==
    IF IsNaN(a) \/ IsNaN(b) THEN NaN
    ELSE IF IsInf(a) /\ IsInf(b) THEN NaN
    ELSE IF IsInf(b) THEN Float(0, 1)
    ELSE IF IsInf(a) THEN Float(Sign(a.num) * Sign(b.num), 0)
    ELSE Float(a.num * b.den, a.den * b.num)

(* The characters of the model. *)
Letters == {"A", "B", "C"}
Digits == {"0", "1", "2", "3", "4", "5", "6", "7", "8", "9"}
DigitValue(ch) ==
    CASE ch = "0" -> 0 [] ch = "1" -> 1 [] ch = "2" -> 2 [] ch = "3" -> 3
      [] ch = "4" -> 4 [] ch = "5" -> 5 [] ch = "6" -> 6 [] ch = "7" -> 7
      [] ch = "8" -> 8 [] ch = "9" -> 9

isNameStart(b) == b \in Letters \/ b = "_"
isDigit(b) == b \in Digits
isNameChar(b) == isNameStart(b) \/ isDigit(b)
isSpace(ch) == ch \in {" ", "\t", "\n", "\r"}

(* strings.TrimSpace *)
RECURSIVE TrimLeft(_)
TrimLeft(s) == IF s # <<>> /\ isSpace(Head(s)) THEN TrimLeft(Tail(s)) ELSE s
RECURSIVE TrimRight(_)
TrimRight(s) ==
    IF s # <<>> /\ isSpace(s[Len(s)]) THEN TrimRight(SubSeq(s, 1, Len(s) - 1)) ELSE s
TrimSpace(s) == TrimRight(TrimLeft(s))

(* fmt.Sscanf(text, "%f", &num) on digits with at most one '.': the number *)
(* read, and 0 (num is left as it was) when the text has no digit.         *)
RECURSIVE DigitsValue(_)
DigitsValue(ds) ==
    IF ds = <<>> THEN 0 ELSE 10 * DigitsValue(SubSeq(ds, 1, Len(ds) - 1)) + DigitValue(ds[Len(ds)])
RECURSIVE Pow10(_)
Pow10(k) == IF k = 0 THEN 1 ELSE 10 * Pow10(k - 1)

Sscanf(text) ==
    LET digits == SelectSeq(text, isDigit)
        dots == {i \in 1..Len(text) : text[i] = "."}
        frac == IF dots = {} THEN 0 ELSE Len(text) - (CHOOSE i \in dots : TRUE)
    IN IF digits = <<>> THEN Float(0, 1)
       ELSE Float(DigitsValue(digits), Pow10(frac))

token(kind, num, text) == [kind |-> kind, num |-> num, text |-> text]

(* The end of the name that starts at i, and of the number that starts at  *)
(* i (dot: a '.' has been read).                                           *)
RECURSIVE nameEnd(_, _)
nameEnd(s, j) == IF j <= Len(s) /\ isNameChar(s[j]) THEN nameEnd(s, j + 1) ELSE j
RECURSIVE numberEnd(_, _, _)
numberEnd(s, j, dot) ==
    IF j > Len(s) THEN j
    ELSE IF isDigit(s[j]) THEN numberEnd(s, j + 1, dot)
    ELSE IF s[j] = "." /\ ~dot THEN numberEnd(s, j + 1, TRUE)
    ELSE j

RECURSIVE tokenizeFrom(_, _, _)
tokenizeFrom(s, i, toks) ==
    IF i > Len(s) THEN [toks |-> toks, err |-> "nil"]
    ELSE LET ch == s[i] IN
         IF isSpace(ch) THEN tokenizeFrom(s, i + 1, toks)
         ELSE IF ch \in {"+", "-", "*", "/"}
              THEN tokenizeFrom(s, i + 1, Append(toks, token("tokOp", Float(0, 1), <<ch>>)))
         ELSE IF ch = "("
              THEN tokenizeFrom(s, i + 1, Append(toks, token("tokLParen", Float(0, 1), <<"(">>)))
         ELSE IF ch = ")"
              THEN tokenizeFrom(s, i + 1, Append(toks, token("tokRParen", Float(0, 1), <<")">>)))
         ELSE IF isNameStart(ch)
              THEN LET j == nameEnd(s, i + 1) IN
                   tokenizeFrom(s, j, Append(toks, token("tokName", Float(0, 1),
                                                         SubSeq(s, i, j - 1))))
         ELSE IF isDigit(ch) \/ ch = "."
              THEN LET j == numberEnd(s, i + 1, ch = ".")
                       text == SubSeq(s, i, j - 1)
                   IN tokenizeFrom(s, j, Append(toks, token("tokNumber", Sscanf(text), text)))
         ELSE [toks |-> <<>>, err |-> errorsNew("unexpected character")]

tokenize(expr) == tokenizeFrom(expr, 1, <<>>)

precedenceFlat(op) == IF op \in {<<"+">>, <<"-">>, <<"*">>, <<"/">>} THEN 1 ELSE -1
precedence(op) ==
    IF op \in {<<"+">>, <<"-">>} THEN 1
    ELSE IF op \in {<<"*">>, <<"/">>} THEN 2
    ELSE -1

(* The loop of the tokOp case: operators on top of the stack that bind at *)
(* least as tightly as tk go to the output.                                *)
RECURSIVE popOperators(_, _, _)
popOperators(tk, output, opstack) ==
    IF opstack = <<>> THEN [output |-> output, opstack |-> opstack]
    ELSE LET top == opstack[Len(opstack)] IN
         IF top.kind = "tokOp" /\ precedence(top.text) >= precedence(tk.text)
         THEN popOperators(tk, Append(output, top), SubSeq(opstack, 1, Len(opstack) - 1))
         ELSE [output |-> output, opstack |-> opstack]

(* The loop of the tokRParen case: pop to the nearest '('. *)
RECURSIVE popToLParen(_, _)
popToLParen(output, opstack) ==
    IF opstack = <<>> THEN [found |-> FALSE, output |-> output, opstack |-> opstack]
    ELSE LET top == opstack[Len(opstack)]
             rest == SubSeq(opstack, 1, Len(opstack) - 1)
         IN IF top.kind = "tokLParen"
            THEN [found |-> TRUE, output |-> output, opstack |-> rest]
            ELSE popToLParen(Append(output, top), rest)

(* The last loop: what is left on the stack goes to the output, a          *)
(* parenthesis among it being an error.                                    *)
isParenNever(tk) == FALSE
isParen(tk) == tk.kind = "tokLParen" \/ tk.kind = "tokRParen"

RECURSIVE drain(_, _, _)
drain(output, opstack, vs) ==
    IF opstack = <<>> THEN [rpn |-> output, vars |-> vs, err |-> "nil"]
    ELSE LET top == opstack[Len(opstack)] IN
         IF isParen(top)
         THEN [rpn |-> <<>>, vars |-> {}, err |-> errorsNew("mismatched parentheses")]
         ELSE drain(Append(output, top), SubSeq(opstack, 1, Len(opstack) - 1), vs)

RECURSIVE shunt(_, _, _, _)
shunt(toks, output, opstack, vs) ==
    IF toks = <<>> THEN drain(output, opstack, vs)
    ELSE LET tk == Head(toks) IN
         CASE tk.kind \in {"tokNumber", "tokName"} ->
                shunt(Tail(toks), Append(output, tk), opstack,
                      IF tk.kind = "tokName" THEN vs \cup {tk.text} ELSE vs)
           [] tk.kind = "tokOp" ->
                LET q == popOperators(tk, output, opstack)
                IN shunt(Tail(toks), q.output, Append(q.opstack, tk), vs)
           [] tk.kind = "tokLParen" ->
                shunt(Tail(toks), output, Append(opstack, tk), vs)
           [] tk.kind = "tokRParen" ->
                LET q == popToLParen(output, opstack)
                IN IF ~q.found
                   THEN [rpn |-> <<>>, vars |-> {},
                         err |-> errorsNew("mismatched parentheses")]
                   ELSE shunt(Tail(toks), q.output, q.opstack, vs)
           [] OTHER -> [rpn |-> <<>>, vars |-> {}, err |-> errorsNew("invalid token")]

parseExpressionToRPN(expr) ==
    LET t == tokenize(expr) IN
    IF t.err # "nil" THEN [rpn |-> <<>>, vars |-> {}, err |-> t.err]
    ELSE shunt(t.toks, <<>>, <<>>, {})

(* The case "/" of evalRPN. *)
divideRaw(a, b) == fdiv(a, b)
divide(a, b) == IF IsZeroFloat(b) THEN Float(0, 1) ELSE fdiv(a, b)

apply(op, a, b) ==
    CASE op = <<"+">> -> fadd(a, b)
      [] op = <<"-">> -> fsub(a, b)
      [] op = <<"*">> -> fmul(a, b)
      [] op = <<"/">> -> divide(a, b)

(* The end of evalRPN: a result that is no number becomes 0. *)
finite(x) == IF IsInf(x) \/ IsNaN(x) THEN Float(0, 1) ELSE x

RECURSIVE evalStack(_, _, _)
evalStack(rpn, e, stack) ==
    IF rpn = <<>>
    THEN IF Len(stack) # 1
         THEN [val |-> Float(0, 1), err |-> errorsNew("evaluation error (stack size)")]
         ELSE [val |-> finite(stack[1]), err |-> "nil"]
    ELSE LET tk == Head(rpn) IN
         CASE tk.kind = "tokNumber" -> evalStack(Tail(rpn), e, Append(stack, tk.num))
           [] tk.kind = "tokName" ->
                IF tk.text \notin DOMAIN e
                THEN [val |-> Float(0, 1), err |-> errorsNew("missing variable")]
                ELSE evalStack(Tail(rpn), e, Append(stack, e[tk.text]))
           [] tk.kind = "tokOp" ->
                IF Len(stack) < 2
                THEN [val |-> Float(0, 1), err |-> errorsNew("stack underflow")]
                ELSE LET b == stack[Len(stack)]
                         a == stack[Len(stack) - 1]
                     IN IF tk.text \notin {<<"+">>, <<"-">>, <<"*">>, <<"/">>}
                        THEN [val |-> Float(0, 1), err |-> errorsNew("unknown operator")]
                        ELSE evalStack(Tail(rpn), e,
                                 Append(SubSeq(stack, 1, Len(stack) - 2),
                                        apply(tk.text, a, b)))
           [] OTHER -> [val |-> Float(0, 1), err |-> errorsNew("bad token in evaluation")]

evalRPN(rpn, e) == evalStack(rpn, e, <<>>)

----------------------------------------------------------------------------
(* Compiling and evaluating: parseExpressionToRPN and evalRPN on the       *)
(* well-formed formulas of up to MaxFormulaLen characters over two         *)
(* variables and a literal, in every environment over a few values,        *)
(* +Inf among them.                                                        *)

Operators == {"+", "-", "*", "/"}
Atoms == {<<"A">>, <<"B">>, <<"2">>}

RECURSIVE WellFormed(_)
WellFormed(n) ==
    IF n <= 0 THEN {}
    ELSE LET inner == WellFormed(n - 2) IN
         Atoms
         \cup {<<"(">> \o f \o <<")">> : f \in inner}
         \cup UNION {{f \o <<op>> \o g : op \in Operators,
                         g \in {h \in inner : Len(f) + Len(h) + 1 <= n}} : f \in inner}

EnvValues == {Float(0, 1), Float(1, 1), Float(3, 1), Float(1, 0)}
Envs == {(<<"A">> :> a) @@ (<<"B">> :> b) : a \in EnvValues, b \in EnvValues}

InitRPN ==
    /\ formula \in WellFormed(MaxFormulaLen)
    /\ env \in Envs
    /\ outName = <<>> /\ exprs = <<>> /\ res = NoRes
    /\ pc = "evaluate"
    /\ cli = "" /\ start = 0 /\ end = 0
    /\ mainItem = ZeroItem /\ trail = NoTrail /\ parsed = <<>>
    /\ streamIdle
    /\ aggIdle

(* rpn, vars, err := parseExpressionToRPN(formula), then evalRPN(rpn, env) *)
EvaluateOp ==
    /\ pc = "evaluate"
    /\ LET c == parseExpressionToRPN(formula) IN
       res' = IF c.err # "nil"
              THEN [val |-> Float(0, 1), err |-> c.err]
              ELSE evalRPN(c.rpn, env)
    /\ pc' = "evaluated"
    /\ UNCHANGED <<streamVars, cli, start, end, mainItem, trail, parsed, aggVars,
                   formula, outName, env, exprs>>

NextRPN == EvaluateOp

SpecRPN == InitRPN /\ [][NextRPN]_vars

Evaluated == pc = "evaluated"

FiniteEnv == \A v \in DOMAIN env : env[v].den # 0

(* The reference evaluation of a well-formed formula whose operands are    *)
(* single characters: an expression is terms joined by + and -, a term is  *)
(* factors joined by * and /, both taken from left to right, and a factor  *)
(* is an operand or an expression in parentheses.  A division by 0 is 0;   *)
(* dz tells that one occurred.                                             *)
RefOperand(ch, e) == IF ch \in Letters THEN e[<<ch>>] ELSE Float(DigitValue(ch), 1)

RefApply(op, a, b) ==
    CASE op = "+" -> fadd(a, b)
      [] op = "-" -> fsub(a, b)
      [] op = "*" -> fmul(a, b)
      [] op = "/" -> IF b = Float(0, 1) THEN Float(0, 1) ELSE fdiv(a, b)

RefJoin(op, l, r) ==
    [val |-> RefApply(op, l.val, r.val), pos |-> r.pos,
     dz |-> l.dz \/ r.dz \/ (op = "/" /\ r.val = Float(0, 1))]

RECURSIVE RefExpr(_, _, _)
RECURSIVE RefExprRest(_, _, _)
RECURSIVE RefTerm(_, _, _)
RECURSIVE RefTermRest(_, _, _)
RECURSIVE RefFactor(_, _, _)

RefFactor(s, i, e) ==
    IF s[i] = "("
    THEN LET r == RefExpr(s, i + 1, e) IN [r EXCEPT !.pos = @ + 1]
    ELSE [val |-> RefOperand(s[i], e), pos |-> i + 1, dz |-> FALSE]

RefTermRest(s, l, e) ==
    IF l.pos <= Len(s) /\ s[l.pos] \in {"*", "/"}
    THEN RefTermRest(s, RefJoin(s[l.pos], l, RefFactor(s, l.pos + 1, e)), e)
    ELSE l

RefTerm(s, i, e) == RefTermRest(s, RefFactor(s, i, e), e)

RefExprRest(s, l, e) ==
    IF l.pos <= Len(s) /\ s[l.pos] \in {"+", "-"}
    THEN RefExprRest(s, RefJoin(s[l.pos], l, RefTerm(s, l.pos + 1, e)), e)
    ELSE l

RefExpr(s, i, e) == RefExprRest(s, RefTerm(s, i, e), e)

RefValue == RefExpr(formula, 1, env)

(* C15: every division whose divisor is 0 is 0 as a sub-expression, and    *)
(* the value evaluation gives is neither infinite nor NaN, whatever the    *)
(* values of the variables.                                                *)
C15_DivisionByZero ==
    Evaluated =>
        /\ res.err = "nil"
        /\ res.val.den # 0
        /\ (FiniteEnv /\ RefValue.dz) => res.val = RefValue.val

(* A division by 0 inside a formula whose value is not 0. *)
C15_Witness ==
    /\ Evaluated /\ FiniteEnv
    /\ RefValue.dz
    /\ res.val # Float(0, 1)

(* C16: the value of a well-formed formula, compiled to postfix and        *)
(* evaluated, is that of the reference evaluation, in which * and / bind   *)
(* tighter than + and -, operators of one precedence associate from left   *)
(* to right and parentheses override the precedence.                       *)
C16_Precedence ==
    (Evaluated /\ FiniteEnv) => (res.err = "nil" /\ res.val = RefValue.val)

(* x - y * z and x - y - z with values that tell the readings apart. *)
C16_Witness ==
    /\ Evaluated /\ FiniteEnv
    /\ Len(formula) = 5 /\ formula[2] = "-" /\ formula[4] \in {"*", "-"}
    /\ \A i \in {1, 3, 5} : formula[i] \notin {"(", ")"}
    /\ LET x == RefOperand(formula[1], env)
           y == RefOperand(formula[3], env)
           z == RefOperand(formula[5], env)
       IN /\ RefApply(formula[4], RefApply("-", x, y), z)
                # RefApply("-", x, RefApply(formula[4], y, z))
          /\ res.val = RefValue.val

----------------------------------------------------------------------------
(* MetricExpressionCalculator.Compute.  A metric of the expression engine  *)
(* has a name that is a string of characters and a value that is a         *)
(* float64.  A result is the pair Compute returns: the metrics (nil tells  *)
(* a nil slice from an empty one) and the error.                           *)

SourceTypeExpr == "EXPR"

Result(ms, isNil, err) == [metrics |-> ms, nil |-> isNil, err |-> err]

(* ns[name] += m.Value; a name that is not in the map yet reads as 0 *)
foldValueLast(old, v) == v
foldValue(old, v) == fadd(old, v)

(* The loop that builds timeToNameSum; seenTimes is its domain. *)
RECURSIVE timeToNameSum(_, _)
timeToNameSum(ms, acc) ==
    IF ms = <<>> THEN acc
    ELSE LET m == Head(ms) IN
         IF IsZero(m.StartTime) THEN timeToNameSum(Tail(ms), acc)
         ELSE LET tt == m.StartTime
                  ns == IF tt \in DOMAIN acc THEN acc[tt] ELSE <<>>
                  old == IF m.Name \in DOMAIN ns THEN ns[m.Name] ELSE Float(0, 1)
                  ns2 == (m.Name :> foldValue(old, m.Value)) @@ ns
              IN timeToNameSum(Tail(ms), (tt :> ns2) @@ acc)

(* okAll: every variable of the formula has a value at the instant. *)
hasSome(ns, vs) == \E v \in vs : v \in DOMAIN ns
hasAll(ns, vs) == \A v \in vs : v \in DOMAIN ns

(* The instants to evaluate at: those where every variable exists, and    *)
(* every instant seen when the formula has no variable.                    *)
selectAllTimes(sums, vs) == DOMAIN sums
selectTimes(sums, vs) ==
    IF vs # {} THEN {tt \in DOMAIN sums : hasAll(sums[tt], vs)}
    ELSE DOMAIN sums

(* sort.Slice(times, Before) on instants that are pairwise distinct *)
RECURSIVE sortTimes(_)
sortTimes(ts) ==
    IF ts = {} THEN <<>>
    ELSE LET first == CHOOSE x \in ts : \A y \in ts : x <= y
         IN <<first>> \o sortTimes(ts \ {first})

(* outName = strings.TrimSpace(formula) when no name is given *)
defaultNameRaw(f) == f
defaultName(f) == TrimSpace(f)

(* return nil, fmt.Errorf("evaluate at %s: %w", ...) *)
evalFailedKeeps(done, err) == Result(done, FALSE, errorsNew("evaluate at: " \o err))
evalFailed(done, err) == Result(<<>>, TRUE, errorsNew("evaluate at: " \o err))

(* The loop over the sorted instants. *)
RECURSIVE evalAll(_, _, _, _, _)
evalAll(rpn, sums, times, name, done) ==
    IF times = <<>> THEN Result(done, FALSE, "nil")
    ELSE LET tt == Head(times)
             r == evalRPN(rpn, sums[tt])
         IN IF r.err # "nil" THEN evalFailed(done, r.err)
            ELSE evalAll(rpn, sums, Tail(times), name,
                         Append(done, Metric(SourceTypeExpr, tt, name, r.val)))

Compute(ms, f, name) ==
    IF TrimSpace(f) = <<>> THEN Result(<<>>, TRUE, errorsNew("empty formula"))
    ELSE LET c == parseExpressionToRPN(f) IN
         IF c.err # "nil" THEN Result(<<>>, TRUE, c.err)
         ELSE LET sums == timeToNameSum(ms, <<>>)
                  times == selectTimes(sums, c.vars)
              IN IF times = {} THEN Result(<<>>, FALSE, "nil")
                 ELSE evalAll(c.rpn, sums, sortTimes(times),
                              IF name = <<>> THEN defaultName(f) ELSE name, <<>>)

ComputeExpression(ms, f, name) == Compute(ms, f, name)

(* The calls of Compute: every text of up to MaxTextLen characters over    *)
(* two variables, a literal, two operators, the parentheses, the blank and *)
(* a character no formula may hold, on every list of up to MaxPts metrics  *)
(* over two names, two instants and the zero time, two categories.         *)
FormulaChars == {"A", "B", "2", "+", "/", "(", ")", " ", "#"}
Texts == SeqsUpTo(FormulaChars, MaxTextLen)
OutNames == {<<>>, <<"C">>}

ExprPoints ==
    {Metric("DUMP", 1, <<"A">>, Float(1, 1)), Metric("SLOWLOG", 1, <<"A">>, Float(3, 1)),
     Metric("DUMP", 2, <<"A">>, Float(1, 1)), Metric("DUMP", 1, <<"B">>, Float(0, 1)),
     Metric("DUMP", 0, <<"A">>, Float(3, 1))}

(* The formula a caller turns to after a failed call. *)
Retries == {<<"A", "/", "B">>}

InitExpr ==
    /\ metrics \in SeqsUpTo(ExprPoints, MaxPts)
    /\ formula \in Texts
    /\ outName \in OutNames
    /\ env = <<>> /\ exprs = <<>> /\ res = NoRes
    /\ agg = <<>> /\ out = {}
    /\ pc = "compute"
    /\ cli = "" /\ start = 0 /\ end = 0
    /\ mainItem = ZeroItem /\ trail = NoTrail /\ parsed = <<>>
    /\ streamIdle

ComputeOp ==
    /\ pc = "compute"
    /\ res' = ComputeExpression(metrics, formula, outName)
    /\ trail' = Called("Compute")
    /\ pc' = "computed"
    /\ UNCHANGED <<streamVars, cli, start, end, mainItem, parsed, aggVars,
                   formula, outName, env, exprs>>

(* A call that follows a failed one, on the same metrics. *)
ComputeAgainOp ==
    /\ pc = "computed" /\ res.err # "nil"
    /\ formula' \in Retries
    /\ res' = ComputeExpression(metrics, formula', outName)
    /\ trail' = Called("Compute")
    /\ pc' = "computed"
    /\ UNCHANGED <<streamVars, cli, start, end, mainItem, parsed, aggVars,
                   outName, env, exprs>>

NextExpr == ComputeOp \/ ComputeAgainOp

SpecExpr == InitExpr /\ [][NextExpr]_vars

Computed == pc = "computed"

Compiled == parseExpressionToRPN(formula)
Variables == Compiled.vars

(* The formula compiles and its postfix form evaluates when every variable *)
(* has a value.                                                            *)
Evaluable ==
    /\ Compiled.err = "nil"
    /\ evalRPN(Compiled.rpn, [v \in Variables |-> Float(1, 1)]).err = "nil"

Instants == 0..MaxT
Named(v, t) == {i \in DOMAIN metrics : metrics[i].Name = v /\ metrics[i].StartTime = t}
InputTimes == {metrics[i].StartTime : i \in DOMAIN metrics} \ {0}
Qualifying == {t \in Instants : t # 0 /\ \A v \in Variables : Named(v, t) # {}}
Selected == IF Variables = {} THEN InputTimes ELSE Qualifying
OutputTimes == {res.metrics[k].StartTime : k \in DOMAIN res.metrics}

(* C13: with a formula over a non-empty set of variables, Compute outputs  *)
(* a metric at t exactly when t is not the zero time and the input holds,  *)
(* for every variable, a metric of that name at t; an instant that lacks   *)
(* a variable is skipped.  Stated for the formulas that evaluate.          *)
C13_AllVariablesPresent ==
    (Computed /\ Evaluable /\ Variables # {}) =>
        /\ res.err = "nil"
        /\ \A t \in Instants : t \in OutputTimes <=> t \in Qualifying

(* A + B with A at two instants and B at the first only: one point. *)
C13_Witness ==
    /\ Computed
    /\ formula = <<"A", "+", "B">>
    /\ Named(<<"A">>, 1) # {} /\ Named(<<"A">>, 2) # {}
    /\ Named(<<"B">>, 1) # {} /\ Named(<<"B">>, 2) = {}
    /\ Len(res.metrics) = 1 /\ res.metrics[1].StartTime = 1

RECURSIVE SumValues(_)
SumValues(I) ==
    IF I = {} THEN Float(0, 1)
    ELSE LET i == CHOOSE x \in I : TRUE
         IN fadd(metrics[i].Value, SumValues(I \ {i}))

NamesAt(t) == {metrics[i].Name : i \in {j \in DOMAIN metrics : metrics[j].StartTime = t}}
SumEnv(t) == [v \in NamesAt(t) |-> SumValues(Named(v, t))]

(* C14: the value a variable has at an instant is the sum of the values of *)
(* all input metrics of that name and time, whatever their category and    *)
(* place in the input; each output value is the formula evaluated on these *)
(* sums.                                                                   *)
C14_FoldBySum ==
    (Computed /\ res.err = "nil") =>
        \A k \in DOMAIN res.metrics :
            res.metrics[k].Value =
                evalRPN(Compiled.rpn, SumEnv(res.metrics[k].StartTime)).val

(* Two metrics of one name and time, of different categories, folded. *)
C14_Witness ==
    /\ Computed /\ res.err = "nil"
    /\ formula = <<"A", "+", "B">>
    /\ \E i, j \in Named(<<"A">>, 1) :
          i < j /\ metrics[i].SourceType # metrics[j].SourceType
    /\ \E k \in DOMAIN res.metrics :
          res.metrics[k].StartTime = 1 /\ res.metrics[k].Value = Float(4, 1)

Count(s, ch, i) == Cardinality({j \in 1..i : s[j] = ch})
Unbalanced(s) ==
    \/ \E i \in 1..Len(s) : Count(s, ")", i) > Count(s, "(", i)
    \/ Count(s, "(", Len(s)) > Count(s, ")", Len(s))
AllowedChars ==
    {" ", "\t", "\n", "\r", "(", ")", "_", "."} \cup Operators \cup Letters \cup Digits
BadChar(s) == \E i \in 1..Len(s) : s[i] \notin AllowedChars

(* C17: for a formula with an unmatched parenthesis or a character that no *)
(* formula may hold, Compute returns an error and no metrics, on every     *)
(* input, the empty one included.                                          *)
C17_SyntaxError ==
    (Computed /\ (Unbalanced(formula) \/ BadChar(formula))) =>
        /\ res.err # "nil"
        /\ res.nil /\ res.metrics = <<>>

(* An unmatched '(' on the empty input. *)
C17_Witness ==
    /\ Computed
    /\ formula = <<"(", "A">>
    /\ metrics = <<>>
    /\ res.err # "nil"

(* The evaluation fails at a selected instant. *)
EvalFails ==
    /\ TrimSpace(formula) # <<>>
    /\ Compiled.err = "nil"
    /\ \E t \in Selected : evalRPN(Compiled.rpn, SumEnv(t)).err # "nil"

(* C18: when the evaluation fails at a selected instant, Compute returns   *)
(* an error and a nil result, no metric of any instant; the call that      *)
(* follows a failed one is not affected by it.                             *)
C18_EvaluationFailure ==
    Computed =>
        /\ EvalFails => (res.err # "nil" /\ res.nil /\ res.metrics = <<>>)
        /\ Len(trail.calls) > 1 =>
              (res.err = "nil" /\ Len(res.metrics) = Cardinality(Selected))

(* A failure with two selected instants. *)
C18_Witness ==
    /\ Computed /\ EvalFails
    /\ Cardinality(Selected) = 2
    /\ res.nil

IsBlank(s) == \A i \in DOMAIN s : isSpace(s[i])
Untrimmed(n, f) ==
    /\ n # <<>> => ~isSpace(n[1]) /\ ~isSpace(n[Len(n)])
    /\ \E a \in 0..Len(f) : \E b \in a..Len(f) :
          /\ n = SubSeq(f, a + 1, b)
          /\ IsBlank(SubSeq(f, 1, a)) /\ IsBlank(SubSeq(f, b + 1, Len(f)))

----------------------------------------------------------------------------
(* computeExpressions: the expressions of a group, each a name and a       *)
(* formula, evaluated over the selected metrics.                           *)

ExprSpec(name, f) == [Name |-> name, Formula |-> f]

(* continue: after an expression that is skipped the loop goes on with the *)
(* expressions that follow it.                                             *)
afterSkipStop(rest) == <<>>
afterSkip(rest) == rest

RECURSIVE computeExpressionsFrom(_, _, _)
computeExpressionsFrom(selected, es, done) ==
    IF es = <<>> THEN done
    ELSE LET name == TrimSpace(Head(es).Name)
             f == TrimSpace(Head(es).Formula)
         IN IF name = <<>> \/ f = <<>>
            THEN computeExpressionsFrom(selected, afterSkip(Tail(es)), done)
            ELSE LET r == ComputeExpression(selected, f, name) IN
                 IF r.err # "nil"
                 THEN computeExpressionsFrom(selected, afterSkip(Tail(es)), done)
                 ELSE computeExpressionsFrom(selected, Tail(es), done \o r.metrics)

computeExpressions(selected, es) == computeExpressionsFrom(selected, es, <<>>)

(* The groups: expressions that succeed, one that reads the name another   *)
(* one writes, one that does not evaluate, one that does not compile, and  *)
(* ones of a blank name or formula.                                        *)
ExprSpecs ==
    {ExprSpec(<<"C">>, <<"A">>), ExprSpec(<<" ", "D">>, <<"A", "/", "B", " ">>),
     ExprSpec(<<"D">>, <<"C">>), ExprSpec(<<"C">>, <<"A", "+">>),
     ExprSpec(<<"C">>, <<"(", "A">>), ExprSpec(<<" ">>, <<"A">>),
     ExprSpec(<<>>, <<"A">>), ExprSpec(<<"C">>, <<" ">>)}

InitBatch ==
    /\ metrics \in SeqsUpTo(ExprPoints, MaxPts)
    /\ exprs \in SeqsUpTo(ExprSpecs, MaxExprs)
    /\ formula = <<>> /\ outName = <<>> /\ env = <<>> /\ res = NoRes
    /\ agg = <<>> /\ out = {}
    /\ pc = "batch"
    /\ cli = "" /\ start = 0 /\ end = 0
    /\ mainItem = ZeroItem /\ trail = NoTrail /\ parsed = <<>>
    /\ streamIdle

ComputeExpressionsOp ==
    /\ pc = "batch"
    /\ res' = Result(computeExpressions(metrics, exprs), FALSE, "nil")
    /\ pc' = "batched"
    /\ UNCHANGED <<streamVars, cli, start, end, mainItem, trail, parsed, aggVars,
                   formula, outName, env, exprs>>

NextBatch == ComputeExpressionsOp

SpecBatch == InitBatch /\ [][NextBatch]_vars

Batched == pc = "batched"

(* The series of the i-th expression of the group over the base metrics:   *)
(* nothing when its name or formula is blank or its Compute call fails.    *)
Series(i) ==
    LET r == Compute(metrics, TrimSpace(exprs[i].Formula), TrimSpace(exprs[i].Name))
    IN IF IsBlank(exprs[i].Name) \/ IsBlank(exprs[i].Formula) \/ r.err # "nil"
       THEN <<>>
       ELSE r.metrics

RECURSIVE SeriesUpTo(_)
SeriesUpTo(n) == IF n = 0 THEN <<>> ELSE SeriesUpTo(n - 1) \o Series(n)

(* C20: computeExpressions returns the series of the expressions whose     *)
(* Compute call succeeds, one after the other in the order of the list;    *)
(* an expression that fails, or whose name or formula is empty, adds       *)
(* nothing and stops no later one, and each is evaluated over the base     *)
(* metrics only.                                                           *)
C20_BatchContinues ==
    Batched => res.metrics = SeriesUpTo(Len(exprs))

(* A failing expression between one that succeeds and one that reads the   *)
(* name the first one writes.                                              *)
C20_Witness ==
    /\ Batched
    /\ Len(exprs) = 3
    /\ Series(1) # <<>>
    /\ exprs[2] = ExprSpec(<<"C">>, <<"A", "+">>)
    /\ exprs[3] = ExprSpec(<<" ", "D">>, <<"A", "/", "B", " ">>)
    /\ Series(3) # <<>>
    /\ res.metrics = Series(1) \o Series(3)

----------------------------------------------------------------------------
(* The lookahead buffer, the year of variant B, and Seek against the       *)
(* forward scan and the full segmentation.                                 *)

(* C22: in both variants, after any sequence of Seek, Next, Value and      *)
(* Close calls the lookahead buffer holds at most one line and unread was  *)
(* never called on an occupied buffer (the panic of unread did not         *)
(* happen).                                                                *)
C22_OneLineLookahead ==
    /\ ~p.panicked
    /\ Len(p.peekBuf) <= 1

(* A Next that took its head out of the buffer and pushed back the next. *)
C22_Witness ==
    /\ ret.op = "Next" /\ ret.ok
    /\ ret.head >= 2
    /\ p.peekBuf # <<>>
    /\ p.sc = ret.head + 1
    /\ ~p.panicked

(* C23: variant B, the startTime of a record yielded by Seek or Next is    *)
(* read with the year of the last created-at line before its head, 2025    *)
(* when there is none, wherever that line lies.                            *)
C23_YearOfRecord ==
    (variant = "B" /\ ret.op \in {"Seek", "Next"} /\ ret.ok) =>
        Value(p).item.StartTime = timeInYear(YearAt(disk, ret.head), disk[ret.head].md)

(* C24: variant B, the current year is never set to a year smaller than    *)
(* one it held: after a Seek on a fresh stream has read the created-at     *)
(* lines before the head it stops at, the current year is not smaller than *)
(* the year of any of them.                                                *)
C24_YearMonotonic ==
    (variant = "B" /\ ret.op = "Seek" /\ ret.fresh /\ ret.ok) =>
        \A j \in 1..(ret.head - 1) :
            disk[j].created # "" =>
                yearNumber(p.curYear) >= yearNumber(disk[j].created)

(* The forward scan of Seek alone, on a fresh stream. *)
ForwardScan(v, f, at) ==
    IF v = "A" THEN seekScanA(f, NewParser, at) ELSE seekScanB(f, NewParser, at)

(* C25: Seek(at) on a fresh stream ends as the forward scan alone does,    *)
(* with EOF or with the same current record, and reports EOF only when no  *)
(* record head of the file lies at or after at.                            *)
C25_TailHeuristicSound ==
    (ret.op = "Seek" /\ ret.fresh) =>
        LET s == ForwardScan(variant, disk, ret.at) IN
        /\ ret.err = ErrorText(s.err)
        /\ s.err = "nil" => p.cur = s.p.cur
        /\ ret.err = "EOF" => HeadsFrom(variant, disk, ret.at) = {}

(* C27: when Seek or Next reports the end of the data, Value returns an    *)
(* error, no record yielded earlier, and Next returns false.               *)
C27_NoStaleRecord ==
    (/\ p.file = "open"
     /\ \/ ret.op = "Seek" /\ ret.err = "EOF"
        \/ ret.op = "Next" /\ ~ret.ok) =>
        /\ Value(p).err # "nil"
        /\ ~Next_(variant, disk, p).ok

(* Next until it returns false: the items it yields after those of acc. *)
RECURSIVE DrainNext(_, _, _)
DrainNext(f, P, acc) ==
    LET n == NextA(f, P) IN
    IF n.ok /\ ~n.p.panicked THEN DrainNext(f, n.p, Append(acc, Value(n.p).item)) ELSE acc

(* The full segmentation: Seek at the zero time, then Next until false. *)
FullSegmentation(f) ==
    LET s == SeekA(f, NewParser, 0) IN
    IF s.err # "nil" THEN <<>> ELSE DrainNext(f, s.p, <<Value(s.p).item>>)

HeadTimesAscend(f) ==
    \A i \in 1..Len(f) : \A j \in 1..Len(f) :
        (i < j /\ reTsMatch(f[i]) /\ reTsMatch(f[j])) => headTime(f[i]).t <= headTime(f[j]).t

(* C26: variant A, on a file whose head times ascend, Seek(at) and Next    *)
(* until false yield the records of the full segmentation whose startTime  *)
(* is at or after at, with their lines and category.                       *)
C26_SeekIsSuffix ==
    (variant = "A" /\ ret.op = "Seek" /\ ret.fresh /\ HeadTimesAscend(disk)) =>
        (IF ret.ok THEN DrainNext(disk, p, <<Value(p).item>>) ELSE <<>>)
            = SelectSeq(FullSegmentation(disk), LAMBDA it : it.StartTime >= ret.at)

----------------------------------------------------------------------------
(* Compute: the variables at the selected instants, and the formulas that  *)
(* are no infix expressions.                                               *)

Identifiers == {Compiled.rpn[k].text : k \in {j \in DOMAIN Compiled.rpn :
                                                 Compiled.rpn[j].kind = "tokName"}}

(* C28: in Compute the evaluation never fails for a missing variable: at   *)
(* every instant selected for a formula that compiles, each identifier of  *)
(* the postfix program has a value in the environment of that instant.     *)
C28_NoMissingVariable ==
    Computed =>
        /\ res.err # "evaluate at: missing variable"
        /\ Compiled.err = "nil" =>
              \A t \in Selected : \A v \in Identifiers : Named(v, t) # {}

(* Two variables, an instant that holds both and one that holds one. *)
C28_Witness ==
    /\ Computed /\ res.err = "nil"
    /\ formula = <<"A", "/", "B">>
    /\ Named(<<"B">>, 1) # {} /\ Named(<<"A">>, 1) # {}
    /\ Named(<<"A">>, 2) # {} /\ Named(<<"B">>, 2) = {}
    /\ OutputTimes = {1}

(* The infix expressions over binary operators, on the kinds of the        *)
(* tokens: operands joined by operators, an operand being a number, a      *)
(* name or an expression in parentheses.  ParseExpr gives the place after  *)
(* the expression that starts at i, 0 when there is none.                  *)
RECURSIVE ParseExpr(_, _)
RECURSIVE ParseOperand(_, _)
RECURSIVE ParseRest(_, _)

ParseOperand(k, i) ==
    IF i > Len(k) THEN 0
    ELSE IF k[i] \in {"tokNumber", "tokName"} THEN i + 1
    ELSE IF k[i] = "tokLParen"
         THEN LET j == ParseExpr(k, i + 1) IN
              IF j # 0 /\ j <= Len(k) /\ k[j] = "tokRParen" THEN j + 1 ELSE 0
    ELSE 0

ParseRest(k, i) ==
    IF i <= Len(k) /\ k[i] = "tokOp"
    THEN LET j == ParseOperand(k, i + 1) IN IF j = 0 THEN 0 ELSE ParseRest(k, j)
    ELSE i

ParseExpr(k, i) ==
    LET j == ParseOperand(k, i) IN IF j = 0 THEN 0 ELSE ParseRest(k, j)

IsInfix(s) ==
    LET t == tokenize(s)
        k == [i \in DOMAIN t.toks |-> t.toks[i].kind]
    IN t.err = "nil" /\ ParseExpr(k, 1) = Len(k) + 1

(* C30: Compute returns an error for every formula that is no well-formed  *)
(* infix expression over binary operators, on every input.                 *)
C30_MalformedRejected ==
    (Computed /\ ~IsInfix(formula)) => res.err # "nil"

----------------------------------------------------------------------------
(* Aggregate and Compute as calls on the caller's slice: what a call       *)
(* leaves in it, and calls that follow one another on one aggregator.      *)

(* Aggregate ranges over metrics and appends copies of its elements to     *)
(* slices of its own (s.pts); sort.Slice sorts those.                      *)
metricsSortedInPlace(a, ms) ==
    IF a.Mode = "Delta" THEN CHOOSE q \in sortSlice(ms) : TRUE ELSE ms
metricsAfterAggregate(a, ms) == ms

(* Compute ranges over metrics and writes to maps of its own. *)
metricsAfterCompute(ms) == ms

(* The aggregator after a call: Aggregate reads Step, Mode and             *)
(* GroupBySource and assigns to none of them.                              *)
aggregatorAfter(a) == a

PurePoints ==
    {Metric("DUMP", 3, "a", 1), Metric("DUMP", 1, "a", 2),
     Metric("SLOWLOG", 1, "a", 1), Metric("DUMP", 0, "a", 2)}

PureFormulas == {<<"A", "+", "B">>, <<"A", "+">>, <<"2">>}

InitPure ==
    /\ \/ /\ metrics \in SeqsUpTo(PurePoints, MaxPts)
          /\ \E step \in {0, MaxStep} : \E mode \in Modes : \E g \in BOOLEAN :
                agg = [NewBucketAggregator(step, mode) EXCEPT !.GroupBySource = g]
          /\ formula = <<>>
       \/ /\ metrics \in SeqsUpTo(ExprPoints, MaxPts - 1)
          /\ agg = <<>>
          /\ formula \in PureFormulas
    /\ out = {}
    /\ outName = <<>> /\ env = <<>> /\ exprs = <<>> /\ res = NoRes
    /\ pc = "call"
    /\ cli = "" /\ start = 0 /\ end = 0
    /\ mainItem = ZeroItem /\ trail = NoTrail /\ parsed = <<>>
    /\ streamIdle

AggregateCallOp ==
    /\ agg # <<>>
    /\ out' \in Aggregate(agg, metrics)
    /\ metrics' = metricsAfterAggregate(agg, metrics)
    /\ agg' = aggregatorAfter(agg)
    /\ pc' = "called"
    /\ UNCHANGED <<streamVars, cli, start, end, mainItem, trail, parsed, exprVars>>

ComputeCallOp ==
    /\ agg = <<>>
    /\ res' = Compute(metrics, formula, outName)
    /\ metrics' = metricsAfterCompute(metrics)
    /\ pc' = "called"
    /\ UNCHANGED <<streamVars, cli, start, end, mainItem, trail, parsed, agg, out,
                   formula, outName, env, exprs>>

NextPure == AggregateCallOp \/ ComputeCallOp

SpecPure == InitPure /\ [][NextPure]_vars

Arrangements(ms) ==
    {[i \in 1..Len(ms) |-> ms[pi[i]]] : pi \in Permutations(1..Len(ms))}

(* C29: in every mode Aggregate returns the same set of metrics for every  *)
(* arrangement of the input.                                               *)
C29_PermutationInvariant ==
    Aggregated => \A q \in Arrangements(metrics) : Aggregate(agg, q) = {out}

====
